---- MODULE Spec2Model ----
(***************************************************************************)
(* Model of the labeler application: the PythonBridge request/response     *)
(* channel of the main process (src/main/python-bridge.js and its callers  *)
(* in the main script), the newline framing of the production transport,   *)
(* and the renderer's label store: point, eraser and region editing, the   *)
(* auto-save scheduler, the review / done flags and the loading of labels. *)
(***************************************************************************)
EXTENDS Integers, Sequences, FiniteSets, TLC

\* ------------------------------------------------------------------ bounds
\* number of bridge calls issued in one run
MaxCalls == 2
\* number of bytes the engine writes to its stdout in one run
MaxStream == 5
\* largest sample index a click can land on
MaxSample == 8
\* number of regions placed on one segment in one run
MaxRegions == 2
\* number of saveLabels requests awaiting their result at one time
MaxSaves == 2
\* number of segments of the opened file (state.segments.length)
NumSegments == 2
\* number of toggleDone requests awaiting their result at one time
MaxToggles == 1
\* number of loadFile() calls awaiting a result at one time
MaxLoads == 1
\* number of detection requests awaiting their result at one time
MaxDetections == 1

\* ------------------------------------------------------- program constants
TOLERANCE == 5
ERASER_TOLERANCE == 8

ALLOWED_PYTHON_METHODS ==
  { "get_csv_files", "load_patient_file", "load_labels", "save_labels",
    "load_done_files", "toggle_done_file", "load_review_files",
    "load_in_progress_files", "find_peaks", "get_segment",
    "calculate_derivative", "find_onset_compression", "find_upslope" }

LabelTypes ==
  << "compression_systolic_points", "compression_diastolic_points",
     "spontaneous_systolic_points", "spontaneous_diastolic_points" >>

\* ------------------------------------------------------------ value domains
\* JavaScript null / undefined
None == "null"
\* an absent numeric id (message.id === undefined, or a call that got no id)
NoId == -1

\* the method argument of call(): the ipcMain handlers pass fixed names (one
\* of them stands for all: call() never looks at the name); a caller of the
\* bridge's own interface may pass any string, such as one outside the
\* whitelist
IpcMethods == { "find_peaks" }
CallMethods == IpcMethods \cup { "run_shell" }

\* what the write to the transport does: the engine receives the request
\* ("ok"), send()/JSON.stringify()/stdin.write() throws ("throw"), or the
\* write fails after call() returned, e.g. EPIPE on a dead process ("lost")
WriteOutcomes == { "ok", "throw", "lost" }

\* result / error fields of an inbound message; "" is the empty string
Payloads ==
  { [result |-> "r",  error |-> None],
    [result |-> None, error |-> "boom"],
    [result |-> None, error |-> ""] }

VARIABLES
  \* ---- PythonBridge
  isDev,          \* this.isDev
  pythonProcess,  \* this.pythonProcess: None or "proc"
  messageId,      \* this.messageId
  pendingCalls,   \* this.pendingCalls: id -> index of the call (its resolvers)
  calls,          \* the promises returned by call(), in issue order
  timers,         \* ids whose setTimeout callback has not run yet
  sent,           \* requests handed to the transport, in order
  engine,         \* external process: "none", "running", "exited"
  engineInbox,    \* ids of the requests the engine has read
  stdinEnded,     \* PythonShell.end() has closed the engine's stdin
  stopCalled,     \* stop() has been called
  last,           \* the last bridge event
  \* ---- production transport framing
  pipe,           \* bytes written by the engine, not yet delivered
  received,       \* bytes delivered so far
  buffer,         \* the stdout handler's buffer (characters)
  dispatched,     \* messages passed to handleMessage, in order
  \* ---- renderer state
  labels,               \* state.labels: segment id -> segment record
  currentSegment,       \* state.currentSegment
  currentLabelType,     \* state.currentLabelType
  regionSelectionMode,  \* state.regionSelectionMode
  regionStart,          \* state.regionStart: << >> for null, << x >> for x
  labelsDirty,          \* state.labelsDirty
  autoSaveTimeout,      \* state.autoSaveTimeout is set
  currentFile,          \* state.currentFile: None or a file name
  fileData,             \* state.fileData is set (the graph is drawn)
  segments,             \* state.segments.length
  eraserActive,         \* state.eraserActive
  eraserModified,       \* state.eraserModified
  lastEdit,             \* the last renderer event handled: its kind and,
                        \* for a point edit, its sample and the
                        \* label_indexes it found
  pendingTimers,        \* auto-save timers set and neither fired nor cleared
  handleLive,           \* the timer state.autoSaveTimeout names is pending
  saves,                \* saveLabels requests awaiting their result
  doneFiles,            \* state.doneFiles
  reviewFiles,          \* state.reviewFiles
  toggles,              \* toggleDoneFile requests awaiting their result
  storedDone,           \* the done files the engine has stored
  loads,                \* loadFile() calls awaiting the file or the labels
  storedLabels,         \* the label files on disk: file name -> content
  labelsFile,           \* the file whose labels state.labels holds
  detections            \* detection requests awaiting their result

bridgeVars ==
  << isDev, pythonProcess, messageId, pendingCalls, calls, timers, sent,
     engine, engineInbox, stdinEnded, stopCalled, last >>
streamVars == << pipe, received, buffer, dispatched >>
editVars ==
  << labels, currentSegment, currentLabelType, regionSelectionMode,
     regionStart, lastEdit >>
saveVars ==
  << labelsDirty, autoSaveTimeout, pendingTimers, handleLive, saves >>
fileVars == << currentFile, fileData, segments >>
eraserVars == << eraserActive, eraserModified >>
reviewVars == << doneFiles, reviewFiles, toggles, storedDone >>
loadVars == << loads, storedLabels, labelsFile >>
detectVars == << detections >>
rendererVars ==
  << editVars, saveVars, fileVars, eraserVars, reviewVars, loadVars,
     detectVars >>
vars == << bridgeVars, streamVars, rendererVars >>

\* ------------------------------------------------------------- PythonBridge
NoEvent == [op |-> "none", id |-> NoId]

BridgeInit ==
  /\ pythonProcess = None
  /\ messageId = 0
  /\ pendingCalls = << >>
  /\ calls = << >>
  /\ timers = {}
  /\ sent = << >>
  /\ engine = "none"
  /\ engineInbox = {}
  /\ stdinEnded = FALSE
  /\ stopCalled = FALSE
  /\ last = NoEvent

StreamInit ==
  /\ pipe = << >>
  /\ received = << >>
  /\ buffer = << >>
  /\ dispatched = << >>

NoEdit == [op |-> "none"]

\* the state object of the renderer as the script creates it, but for the
\* labels
RendererStateNoLabels ==
  /\ currentSegment = 0
  /\ currentLabelType = "compression_systolic_points"
  /\ regionSelectionMode = FALSE
  /\ regionStart = << >>
  /\ labelsDirty = FALSE
  /\ autoSaveTimeout = FALSE
  /\ eraserActive = FALSE
  /\ eraserModified = FALSE
  /\ lastEdit = NoEdit
  /\ pendingTimers = 0
  /\ handleLive = FALSE
  /\ saves = << >>
  /\ doneFiles = {}
  /\ reviewFiles = << >>
  /\ toggles = << >>
  /\ storedDone = {}
  /\ loads = << >>
  /\ detections = << >>

\* the state object of the renderer as the script creates it
RendererState ==
  /\ labels = << >>
  /\ RendererStateNoLabels

\* files of the data folder
Files == { "a.csv", "b.csv" }

\* no file has labels on disk
NoStoredLabels == [f \in Files |-> << >>]

\* createSegments(): floor(totalSamples / chunk_size) segments; a.csv holds
\* NumSegments segments of samples, b.csv one segment fewer
FileSegments(file) == IF file = "a.csv" THEN NumSegments ELSE NumSegments - 1

RendererInit ==
  /\ RendererState
  /\ currentFile = None
  /\ fileData = FALSE
  /\ segments = 0
  /\ storedLabels = NoStoredLabels
  /\ labelsFile = None

\* the renderer once loadFile() has opened a file that has no stored labels
RendererOpened ==
  /\ RendererState
  /\ currentFile = "a.csv"
  /\ fileData = TRUE
  /\ segments = FileSegments("a.csv")
  /\ storedLabels = NoStoredLabels
  /\ labelsFile = "a.csv"

Init ==
  /\ isDev \in BOOLEAN
  /\ BridgeInit
  /\ StreamInit
  /\ RendererInit

\* the packaged application with a file open in the renderer
InitOpened ==
  /\ isDev = FALSE
  /\ BridgeInit
  /\ StreamInit
  /\ RendererOpened

\* what settled a promise: the call itself, a timer, or an inbound message
\* (with the fields of that message)
NoCause == [src |-> "none", id |-> NoId, result |-> None, error |-> None]
ByCall == [NoCause EXCEPT !.src = "call"]
ByTimer(id) == [NoCause EXCEPT !.src = "timer", !.id = id]
ByMessage(msg) ==
  [src |-> "message", id |-> msg.id, result |-> msg.result, error |-> msg.error]

\* the state of a promise; by records what settled it
Pending == [kind |-> "pending", value |-> None, by |-> NoCause]
Resolved(v, by) == [kind |-> "resolved", value |-> v, by |-> by]
Rejected(e, by) == [kind |-> "rejected", value |-> e, by |-> by]

\* resolve / reject of a promise: only the first settlement has an effect
Settle(cs, c, outcome) ==
  IF cs[c].outcome.kind = "pending" THEN [cs EXCEPT ![c].outcome = outcome] ELSE cs

\* Map.delete
MapDelete(m, k) == [x \in DOMAIN m \ {k} |-> m[x]]
\* Map.set
MapSet(m, k, v) == [x \in DOMAIN m \cup {k} |-> IF x = k THEN v ELSE m[x]]

\* the truthiness test of  if (message.error)
Truthy(e) == e # None /\ e # ""

\* app.whenReady: pythonBridge.start(), once
Start ==
  /\ engine = "none"
  /\ pythonProcess' = "proc"
  /\ engine' = "running"
  /\ last' = [NoEvent EXCEPT !.op = "start"]
  /\ UNCHANGED << isDev, messageId, pendingCalls, calls, timers, sent,
                  engineInbox, stdinEnded, stopCalled >>
  /\ UNCHANGED << streamVars, rendererVars >>

\* a stop() that also drops the pending calls and their timers
Stop_cancelsPending ==
  /\ engine # "none"
  /\ stopCalled' = TRUE
  /\ stdinEnded' = IF pythonProcess # None /\ isDev THEN TRUE ELSE stdinEnded
  /\ pendingCalls' = << >>
  /\ timers' = {}
  /\ last' = [NoEvent EXCEPT !.op = "stop"]
  /\ UNCHANGED << isDev, pythonProcess, messageId, calls, sent, engine, engineInbox >>
  /\ UNCHANGED << streamVars, rendererVars >>

\* pythonBridge.stop(): PythonShell.end() closes the engine's stdin in
\* development; ChildProcess.kill() only sends a signal in production. The
\* process object stays in this.pythonProcess until the close event.
Stop ==
  /\ engine # "none"
  /\ stopCalled' = TRUE
  /\ stdinEnded' = IF pythonProcess # None /\ isDev THEN TRUE ELSE stdinEnded
  /\ last' = [NoEvent EXCEPT !.op = "stop"]
  /\ UNCHANGED << isDev, pythonProcess, messageId, pendingCalls, calls, timers,
                  sent, engine, engineInbox >>
  /\ UNCHANGED << streamVars, rendererVars >>

\* the external process ends (killed, stdin closed, or crashed)
EngineExit ==
  /\ engine = "running"
  /\ engine' = "exited"
  /\ last' = [NoEvent EXCEPT !.op = "exit"]
  /\ UNCHANGED << isDev, pythonProcess, messageId, pendingCalls, calls, timers,
                  sent, engineInbox, stdinEnded, stopCalled >>
  /\ UNCHANGED << streamVars, rendererVars >>

\* the 'close' handler of the process object
Close ==
  /\ engine = "exited"
  /\ pythonProcess # None
  /\ pythonProcess' = None
  /\ last' = [NoEvent EXCEPT !.op = "close"]
  /\ UNCHANGED << isDev, messageId, pendingCalls, calls, timers, sent, engine,
                  engineInbox, stdinEnded, stopCalled >>
  /\ UNCHANGED << streamVars, rendererVars >>

\* whether the engine can read what is written to its stdin
EngineReads == engine = "running" /\ ~stdinEnded

NewCall(method, id, write, outcome) ==
  [method |-> method, id |-> id, write |-> write, afterStop |-> stopCalled,
   outcome |-> outcome]

\* a call() that takes its id before it looks at this.pythonProcess
Call_idBeforeCheck(method, w) ==
  /\ Len(calls) < MaxCalls
  /\ pythonProcess = None
  /\ w = "ok"
  /\ messageId' = messageId + 1
  /\ calls' = Append(calls,
       NewCall(method, NoId, "none", Rejected("Python process not started", ByCall)))
  /\ last' = [NoEvent EXCEPT !.op = "call"]
  /\ UNCHANGED << isDev, pythonProcess, pendingCalls, timers, sent, engine,
                  engineInbox, stdinEnded, stopCalled >>
  /\ UNCHANGED << streamVars, rendererVars >>

\* pythonBridge.call(method, params); w is what the write to the transport does
Call(method, w) ==
  /\ Len(calls) < MaxCalls
  /\ LET c == Len(calls) + 1 IN
     IF pythonProcess = None
     THEN /\ w = "ok"
          /\ calls' = Append(calls,
               NewCall(method, NoId, "none", Rejected("Python process not started", ByCall)))
          /\ last' = [NoEvent EXCEPT !.op = "call"]
          /\ UNCHANGED << messageId, pendingCalls, timers, sent, engineInbox >>
     ELSE LET id == messageId IN
          /\ w = "ok" => EngineReads
          /\ messageId' = messageId + 1
          /\ pendingCalls' = MapSet(pendingCalls, id, c)
          /\ last' = [NoEvent EXCEPT !.op = "call", !.id = id]
          /\ IF w = "throw"
             THEN \* the exception leaves the executor: the promise is rejected,
                  \* the lines after the write do not run
                  /\ calls' = Append(calls, NewCall(method, id, w, Rejected("write threw", ByCall)))
                          /\ UNCHANGED << sent, engineInbox, timers >>
             ELSE /\ calls' = Append(calls, NewCall(method, id, w, Pending))
                  /\ sent' = Append(sent, [id |-> id, method |-> method])
                  /\ engineInbox' = IF w = "ok" THEN engineInbox \cup {id} ELSE engineInbox
                  /\ timers' = timers \cup {id}
  /\ UNCHANGED << isDev, pythonProcess, engine, stdinEnded, stopCalled >>
  /\ UNCHANGED << streamVars, rendererVars >>

\* a handleMessage that settles the oldest pending call, whatever id came in
HandleMessage_oldest(msg) ==
  IF msg.id # NoId /\ msg.id \in DOMAIN pendingCalls
  THEN LET k == CHOOSE x \in DOMAIN pendingCalls : \A y \in DOMAIN pendingCalls : x <= y
           c == pendingCalls[k]
           outcome == IF Truthy(msg.error) THEN Rejected(msg.error, ByMessage(msg))
                      ELSE Resolved(msg.result, ByMessage(msg))
       IN /\ pendingCalls' = MapDelete(pendingCalls, k)
          /\ calls' = Settle(calls, c, outcome)
  ELSE UNCHANGED << pendingCalls, calls >>

\* handleMessage(message): the effect on the bridge
HandleMessage(msg) ==
  IF msg.id # NoId /\ msg.id \in DOMAIN pendingCalls
  THEN LET c == pendingCalls[msg.id]
           outcome == IF Truthy(msg.error) THEN Rejected(msg.error, ByMessage(msg))
                      ELSE Resolved(msg.result, ByMessage(msg))
       IN /\ pendingCalls' = MapDelete(pendingCalls, msg.id)
          /\ calls' = Settle(calls, c, outcome)
  ELSE UNCHANGED << pendingCalls, calls >>

MessageEvent(msg) == [op |-> "message", id |-> msg.id]

\* the engine answers a request it has read; the message reaches handleMessage
EngineRespond(id, p) ==
  /\ engine = "running"
  /\ id \in engineInbox
  /\ LET msg == [id |-> id, result |-> p.result, error |-> p.error] IN
     /\ HandleMessage(msg)
     /\ last' = MessageEvent(msg)
  /\ UNCHANGED << isDev, pythonProcess, messageId, timers, sent, engine,
                  engineInbox, stdinEnded, stopCalled >>
  /\ UNCHANGED << streamVars, rendererVars >>

\* the engine emits a message without an id, or with an id never allocated
EngineUnsolicited(id, p) ==
  /\ engine = "running"
  /\ id \in {NoId, messageId}
  /\ LET msg == [id |-> id, result |-> p.result, error |-> p.error] IN
     /\ HandleMessage(msg)
     /\ last' = MessageEvent(msg)
  /\ UNCHANGED << isDev, pythonProcess, messageId, timers, sent, engine,
                  engineInbox, stdinEnded, stopCalled >>
  /\ UNCHANGED << streamVars, rendererVars >>

\* the call that allocated id
CallOfId(id) == CHOOSE c \in DOMAIN calls : calls[c].id = id

\* a timer callback that rejects but leaves the entry in the map
Timeout_keepsEntry(id) ==
  /\ id \in timers
  /\ timers' = timers \ {id}
  /\ IF id \in DOMAIN pendingCalls
     THEN /\ calls' = Settle(calls, CallOfId(id), Rejected("Python call timeout", ByTimer(id)))
          /\ UNCHANGED pendingCalls
     ELSE UNCHANGED << pendingCalls, calls >>
  /\ last' = [NoEvent EXCEPT !.op = "timeout", !.id = id]
  /\ UNCHANGED << isDev, pythonProcess, messageId, sent, engine, engineInbox,
                  stdinEnded, stopCalled >>
  /\ UNCHANGED << streamVars, rendererVars >>

\* the setTimeout callback of the call that allocated id
Timeout(id) ==
  /\ id \in timers
  /\ timers' = timers \ {id}
  /\ IF id \in DOMAIN pendingCalls
     THEN /\ pendingCalls' = MapDelete(pendingCalls, id)
          /\ calls' = Settle(calls, CallOfId(id), Rejected("Python call timeout", ByTimer(id)))
     ELSE UNCHANGED << pendingCalls, calls >>
  /\ last' = [NoEvent EXCEPT !.op = "timeout", !.id = id]
  /\ UNCHANGED << isDev, pythonProcess, messageId, sent, engine, engineInbox,
                  stdinEnded, stopCalled >>
  /\ UNCHANGED << streamVars, rendererVars >>

Ids == 0 .. (MaxCalls - 1)

BridgeNext(methods) ==
  \/ Start
  \/ Stop
  \/ EngineExit
  \/ Close
  \/ \E m \in methods, w \in WriteOutcomes : Call(m, w)
  \/ \E id \in Ids, p \in Payloads : EngineRespond(id, p)
  \/ \E id \in Ids \cup {NoId, MaxCalls}, p \in Payloads : EngineUnsolicited(id, p)
  \/ \E id \in Ids : Timeout(id)

\* the bridge as the main script drives it
Next == BridgeNext(IpcMethods)

Spec == Init /\ [][Next]_vars

\* the bridge called with any method name
NextAnyMethod == BridgeNext(CallMethods)

SpecAnyMethod == Init /\ [][NextAnyMethod]_vars

\* timers that were armed fire
FairSpec == Spec /\ \A id \in Ids : WF_vars(Timeout(id))

\* --------------------------------------------------- claims on the bridge
IsSettled(c) == calls[c].outcome.kind # "pending"

\* the call went through call() to the end: registered, written, timer armed
Accepted(c) == c \in DOMAIN calls /\ calls[c].write \in {"ok", "lost"}

IdsDistinct ==
  \A c1, c2 \in DOMAIN calls :
    (c1 # c2 /\ calls[c1].id # NoId) => calls[c1].id # calls[c2].id

\* a call settled by a message or a timer was settled by the one carrying its
\* own id, and with that message's result or error
SettledByOwnId ==
  \A c \in DOMAIN calls :
    LET o == calls[c].outcome IN
    /\ o.by.src \in {"message", "timer"} => o.by.id = calls[c].id
    /\ o.by.src = "message" =>
         \/ o.kind = "rejected" /\ o.value = o.by.error
         \/ o.kind = "resolved" /\ o.value = o.by.result

\* a message or timer step touches the entry and the call of its id only
OnlyOwnCallTouched ==
  last'.op \in {"message", "timeout"} =>
    /\ \A c \in DOMAIN calls : calls[c].id # last'.id => calls'[c] = calls[c]
    /\ DOMAIN pendingCalls' = DOMAIN pendingCalls \ {last'.id}
    /\ \A k \in DOMAIN pendingCalls' : pendingCalls'[k] = pendingCalls[k]
    /\ last'.id \in DOMAIN pendingCalls =>
         LET c == pendingCalls[last'.id] IN
         /\ calls[c].outcome = Pending
         /\ calls'[c].outcome.by.src = IF last'.op = "message" THEN "message" ELSE "timer"
         /\ calls'[c].outcome.by.id = last'.id

\* C1: any number of calls may be outstanding without cross-talk: the ids of
\* distinct calls are distinct, an inbound response settles exactly the
\* pending call whose id it carries, with that response's result or error, a
\* timeout removes only its own call's entry, and neither changes any other
\* call; so calls settle in the order their responses arrive.
BridgeNoCrossTalk ==
  /\ [](IdsDistinct /\ SettledByOwnId)
  /\ [][OnlyOwnCallTouched]_vars

\* two calls are outstanding and the second is answered first
WitnessAnsweredOutOfOrder ==
  /\ Len(calls) >= 2
  /\ calls[1].write = "ok" /\ calls[1].outcome = Pending
  /\ calls[2].outcome.kind = "resolved" /\ calls[2].outcome.by.src = "message"
  /\ last = [op |-> "message", id |-> calls[2].id]

\* after its timer has run, an accepted call is settled, and if the timer
\* settled it, it is rejected with the timeout error
TimedOutCallsRejected ==
  \A c \in DOMAIN calls :
    /\ (Accepted(c) /\ calls[c].id \notin timers) => IsSettled(c)
    /\ calls[c].outcome.by.src = "timer" =>
         /\ calls[c].outcome.kind = "rejected"
         /\ calls[c].outcome.value = "Python call timeout"

SettledStaysSettled ==
  \A c \in DOMAIN calls : IsSettled(c) => calls'[c] = calls[c]

\* a message or timer for the id of a call that is already settled
LateEventIgnored ==
  (/\ last'.op \in {"message", "timeout"}
   /\ \E c \in DOMAIN calls : calls[c].id = last'.id /\ IsSettled(c))
  => UNCHANGED << calls, pendingCalls >>

\* C2: a call that gets no response before its timer runs is rejected with
\* the timeout error, and every call is settled at most once: a response that
\* arrives after the timeout rejection, or a timer that runs after the
\* response, changes neither that call's outcome nor any other call.
TimeoutSettlesOnce ==
  /\ []TimedOutCallsRejected
  /\ [][SettledStaysSettled /\ LateEventIgnored]_vars

\* a response has just arrived for a call its timer had already rejected
WitnessLateResponse ==
  /\ last.op = "message"
  /\ \E c \in DOMAIN calls :
       /\ calls[c].id = last.id
       /\ calls[c].outcome = Rejected("Python call timeout", ByTimer(last.id))

\* C3: when the channel is not running (this.pythonProcess is null), call
\* rejects in the same step and does nothing else: no id is allocated, no
\* pending entry stored, nothing transmitted, no timer armed.
CallNotRunningNoEffect ==
  [][(Len(calls') = Len(calls) + 1 /\ pythonProcess = None) =>
       /\ calls'[Len(calls')].outcome = Rejected("Python process not started", ByCall)
       /\ calls'[Len(calls')].id = NoId
       /\ UNCHANGED << messageId, pendingCalls, sent, engineInbox, timers >>]_vars

\* a call was made after the process had started and closed again
WitnessCallAfterClose ==
  /\ engine = "exited" /\ pythonProcess = None
  /\ last.op = "call"
  /\ calls[Len(calls)].outcome.value = "Python process not started"

\* C4: an inbound message whose id is missing or matches no pending call is
\* dropped (map and outcomes unchanged); for a matching id the call is
\* rejected if the message carries an error and resolved with its result
\* otherwise.
InboundMessageHandling ==
  [][last'.op = "message" =>
       IF last'.id = NoId \/ last'.id \notin DOMAIN pendingCalls
       THEN UNCHANGED << pendingCalls, calls >>
       ELSE LET o == calls'[pendingCalls[last'.id]].outcome IN
            /\ pendingCalls' = MapDelete(pendingCalls, last'.id)
            /\ o.by.src = "message"
            /\ IF o.by.error # None
               THEN o.kind = "rejected" /\ o.value = o.by.error
               ELSE o.kind = "resolved" /\ o.value = o.by.result]_vars

\* C5: after stop() has been called, no call issued afterwards resolves with a
\* result.
NoSuccessAfterStop ==
  \A c \in DOMAIN calls : calls[c].afterStop => calls[c].outcome.kind # "resolved"

SettledByResponseOrTimer(c) ==
  c \in DOMAIN calls /\ calls[c].outcome.by.src \in {"message", "timer"}

StopAndCloseTouchNothing ==
  last'.op \in {"stop", "close"} => UNCHANGED << calls, pendingCalls, timers >>

\* C6: stop() and the close event reject and cancel nothing: the calls
\* pending at that moment stay pending and their timers still run, so every
\* accepted call is eventually settled, by its response or by its timeout.
StopCancelsNothing ==
  /\ [][StopAndCloseTouchNothing]_vars
  /\ \A c \in 1 .. MaxCalls :
       Accepted(c) ~> SettledByResponseOrTimer(c)

\* a call issued before stop() has just been rejected by its timer, after stop()
WitnessTimeoutAfterStop ==
  /\ stopCalled
  /\ last.op = "timeout"
  /\ \E c \in DOMAIN calls :
       /\ ~calls[c].afterStop
       /\ calls[c].id = last.id
       /\ calls[c].outcome.by.src = "timer"

\* C8: when transmitting the request fails, call rejects at once instead of
\* waiting for the timeout, and the request is transmitted at most once.
WriteFailureRejectsAtOnce ==
  /\ \A c \in DOMAIN calls :
       calls[c].write \in {"throw", "lost"} =>
         calls[c].outcome.kind = "rejected" /\ calls[c].outcome.by.src = "call"
  /\ \A i, j \in DOMAIN sent : sent[i].id = sent[j].id => i = j

Bytes == { "22", "30", "20", "0A", "C3", "A9" }

Quote == "U+0022"
Zero == "U+0030"
Space == "U+0020"
LineFeed == "U+000A"

\* Buffer.toString(): UTF-8 decoding of one chunk; a lead byte without its
\* continuation byte and a continuation byte without its lead byte each
\* become U+FFFD
RECURSIVE Decode(_)
Decode(b) ==
  IF b = << >> THEN << >>
  ELSE IF b[1] = "C3"
       THEN IF Len(b) >= 2 /\ b[2] = "A9"
            THEN << "U+00E9" >> \o Decode(SubSeq(b, 3, Len(b)))
            ELSE << "U+FFFD" >> \o Decode(Tail(b))
  ELSE IF b[1] = "A9" THEN << "U+FFFD" >> \o Decode(Tail(b))
  ELSE IF b[1] = "22" THEN << Quote >> \o Decode(Tail(b))
  ELSE IF b[1] = "30" THEN << Zero >> \o Decode(Tail(b))
  ELSE IF b[1] = "20" THEN << Space >> \o Decode(Tail(b))
  ELSE << LineFeed >> \o Decode(Tail(b))

\* String.split('\n')
RECURSIVE Split(_)
Split(s) ==
  IF \A i \in DOMAIN s : s[i] # LineFeed THEN << s >>
  ELSE LET i == CHOOSE k \in DOMAIN s :
                  s[k] = LineFeed /\ \A j \in 1 .. (k - 1) : s[j] # LineFeed
       IN << SubSeq(s, 1, i - 1) >> \o Split(SubSeq(s, i + 1, Len(s)))

\* String.trim()
RECURSIVE Trim(_)
Trim(s) ==
  IF s = << >> THEN s
  ELSE IF s[1] = Space THEN Trim(Tail(s))
  ELSE IF s[Len(s)] = Space THEN Trim(SubSeq(s, 1, Len(s) - 1))
  ELSE s

ParseError == [kind |-> "error", chars |-> << >>]

\* JSON.parse(line) on these characters: the number 0 or a string literal,
\* with white space allowed around it; anything else throws
JsonParse(line) ==
  LET t == Trim(line) IN
  IF t = << Zero >> THEN [kind |-> "number", chars |-> t]
  ELSE IF /\ Len(t) >= 2
          /\ t[1] = Quote /\ t[Len(t)] = Quote
          /\ \A i \in 2 .. (Len(t) - 1) : t[i] # Quote
       THEN [kind |-> "string", chars |-> SubSeq(t, 2, Len(t) - 1)]
  ELSE ParseError

\* the for loop of the stdout handler: the values passed to handleMessage
RECURSIVE Dispatch(_)
Dispatch(lines) ==
  IF lines = << >> THEN << >>
  ELSE LET line == lines[1] IN
       IF Trim(line) # << >> /\ JsonParse(line) # ParseError
       THEN << JsonParse(line) >> \o Dispatch(Tail(lines))
       ELSE Dispatch(Tail(lines))

\* the engine writes one more byte to its stdout
EngineWrite(b) ==
  /\ engine = "running"
  /\ Len(received) + Len(pipe) < MaxStream
  /\ pipe' = Append(pipe, b)
  /\ UNCHANGED << received, buffer, dispatched >>
  /\ UNCHANGED << bridgeVars, rendererVars >>

\* the stdout 'data' handler of startProduction, on a chunk of n bytes. The
\* values JsonParse yields have no id property, so handleMessage returns
\* without touching the bridge.
StdoutData(n) ==
  /\ ~isDev
  /\ engine # "none"
  /\ n \in 1 .. Len(pipe)
  /\ LET data == SubSeq(pipe, 1, n)
         lines == Split(buffer \o Decode(data))
     IN /\ buffer' = lines[Len(lines)]
        /\ dispatched' = dispatched \o Dispatch(SubSeq(lines, 1, Len(lines) - 1))
        /\ received' = received \o data
        /\ pipe' = SubSeq(pipe, n + 1, Len(pipe))
  /\ UNCHANGED << bridgeVars, rendererVars >>

InitStream == Init /\ ~isDev

NextStream ==
  \/ Start
  \/ \E b \in Bytes : EngineWrite(b)
  \/ \E n \in 1 .. MaxStream : StdoutData(n)

SpecStream == InitStream /\ [][NextStream]_vars

\* C7: in the byte-stream transport, however the inbound stream is cut into
\* chunks, the messages dispatched are, in order, the parseable non-empty
\* complete lines of the concatenated stream; the trailing incomplete
\* fragment is kept for the next chunk and an unparseable line is dropped.
FramingIndependentOfChunks ==
  LET lines == Split(Decode(received)) IN
  dispatched = Dispatch(SubSeq(lines, 1, Len(lines) - 1))

\* ------------------------------------------------- renderer: point labels
\* sample indices a click can map to: one left of the axis origin, the origin,
\* the samples at and just beyond the point tolerance from it, and the last
\* sample
ClickSamples == { -1, 0, TOLERANCE, TOLERANCE + 1, MaxSample }

TypeSet == { LabelTypes[i] : i \in DOMAIN LabelTypes }

Abs(n) == IF n < 0 THEN -n ELSE n

\* the record handleDirectClick creates for a segment that has none
\* (a field the record does not have reads as undefined: FALSE for review,
\* "" for review_note, no regions for highlighted_regions)
NewSegment(isLabeled) ==
  [labeled |-> isLabeled,
   review |-> FALSE,
   review_note |-> "",
   label_indexes |-> [t \in TypeSet |-> << >>],
   highlighted_regions |-> << >>]

\* labelArray.findIndex(idx => Math.abs(idx - clickedIndex) <= TOLERANCE);
\* 0 stands for -1 (not found)
FindNearby(arr, x) ==
  IF \E i \in DOMAIN arr : Abs(arr[i] - x) <= TOLERANCE
  THEN CHOOSE i \in DOMAIN arr :
         /\ Abs(arr[i] - x) <= TOLERANCE
         /\ \A j \in 1 .. (i - 1) : Abs(arr[j] - x) > TOLERANCE
  ELSE 0

\* labelArray.splice(i, 1)
Splice(arr, i) == SubSeq(arr, 1, i - 1) \o SubSeq(arr, i + 1, Len(arr))

\* labelArray.sort((a, b) => a - b)
RECURSIVE SortAscending(_)
SortAscending(arr) ==
  IF arr = << >> THEN << >>
  ELSE LET m == CHOOSE i \in DOMAIN arr : \A j \in DOMAIN arr :
                  arr[i] < arr[j] \/ (arr[i] = arr[j] /\ i <= j)
       IN << arr[m] >> \o SortAscending(Splice(arr, m))

\* a push that leaves out the sort
PushAndSort_noSort(arr, x) == Append(arr, x)

\* labelArray.push(clickedIndex); labelArray.sort(...)
PushAndSort(arr, x) == SortAscending(Append(arr, x))

\* the for-in loop over label_indexes: position in LabelTypes of the first
\* type holding a point within TOLERANCE of x, or 0
FirstTypeNear(indexes, x) ==
  IF \E k \in DOMAIN LabelTypes : FindNearby(indexes[LabelTypes[k]], x) # 0
  THEN CHOOSE k \in DOMAIN LabelTypes :
         /\ FindNearby(indexes[LabelTypes[k]], x) # 0
         /\ \A j \in 1 .. (k - 1) : FindNearby(indexes[LabelTypes[j]], x) = 0
  ELSE 0

\* a toggle that adds the clicked sample even after it removed a point
TogglePoint_alwaysAdds(indexes, x, type) ==
  LET k == FirstTypeNear(indexes, x)
      removed ==
        IF k # 0
        THEN [indexes EXCEPT ![LabelTypes[k]] = Splice(@, FindNearby(@, x))]
        ELSE indexes
  IN [removed EXCEPT ![type] = PushAndSort(@, x)]

\* a toggle that looks for a nearby point in the current label type only
TogglePoint_currentTypeOnly(indexes, x, type) ==
  IF FindNearby(indexes[type], x) # 0
  THEN [indexes EXCEPT ![type] = Splice(@, FindNearby(@, x))]
  ELSE [indexes EXCEPT ![type] = PushAndSort(@, x)]

\* the point toggle of handleDirectClick on the label_indexes of a segment
TogglePoint(indexes, x, type) ==
  LET k == FirstTypeNear(indexes, x) IN
  IF k # 0
  THEN [indexes EXCEPT ![LabelTypes[k]] = Splice(@, FindNearby(@, x))]
  ELSE [indexes EXCEPT ![type] = PushAndSort(@, x)]

\* a scheduleAutoSave() that sets a new timer without clearing the old one
ScheduleAutoSave_noClear ==
  /\ pendingTimers' = IF pendingTimers < 3 THEN pendingTimers + 1 ELSE 3
  /\ handleLive' = TRUE
  /\ autoSaveTimeout' = TRUE

\* scheduleAutoSave(): clearTimeout(state.autoSaveTimeout) when it is set,
\* then a new timer, whose handle is stored
ScheduleAutoSave ==
  /\ pendingTimers' =
       (IF autoSaveTimeout /\ handleLive
        THEN pendingTimers - 1 ELSE pendingTimers) + 1
  /\ handleLive' = TRUE
  /\ autoSaveTimeout' = TRUE

\* markLabelsDirty(): sets the flag and (re)starts the debounce timer
MarkLabelsDirty ==
  /\ labelsDirty' = TRUE
  /\ ScheduleAutoSave
  /\ UNCHANGED saves

\* selectLabelType(labelType)
SelectLabelType(t) ==
  /\ currentLabelType' = t
  /\ UNCHANGED << labels, currentSegment, regionSelectionMode, regionStart,
                  lastEdit >>
  /\ UNCHANGED << saveVars, fileVars, eraserVars >>
  /\ UNCHANGED << loadVars, detectVars, bridgeVars, streamVars, reviewVars >>

\* a region stored as clicked, without the swap
OrderedRegion_noSwap(a, b) == [start |-> a, end |-> b]

\* state.regionEnd = clickedIndex; if (regionStart > regionEnd) swap them
OrderedRegion(a, b) ==
  IF a > b THEN [start |-> b, end |-> a] ELSE [start |-> a, end |-> b]

\* handleDirectClick(event), the click listener updateGraph() puts on the
\* drawn graph: onModebar and shiftKey are the event's target and modifier,
\* x the sample index its position maps to
HandleDirectClick(onModebar, shiftKey, x) ==
  /\ fileData
  /\ IF onModebar \/ shiftKey
     THEN UNCHANGED << labels, regionStart, lastEdit, saveVars >>
     ELSE IF regionSelectionMode
     THEN IF regionStart = << >>
          THEN /\ regionStart' = << x >>
               /\ lastEdit' = [op |-> "regionStart", x |-> x]
               /\ UNCHANGED << labels, saveVars >>
          ELSE LET region == OrderedRegion(regionStart[1], x)
                   old == IF currentSegment \in DOMAIN labels
                          THEN labels[currentSegment] ELSE NewSegment(TRUE)
               IN /\ labels' = MapSet(labels, currentSegment,
                       [old EXCEPT !.highlighted_regions = Append(@, region)])
                  /\ regionStart' = << >>
                  /\ lastEdit' = [op |-> "regionEnd", x |-> x]
                  /\ MarkLabelsDirty
     ELSE LET old == IF currentSegment \in DOMAIN labels
                     THEN labels[currentSegment] ELSE NewSegment(FALSE)
          IN /\ labels' = MapSet(labels, currentSegment,
                  [old EXCEPT !.label_indexes = TogglePoint(@, x, currentLabelType),
                              !.labeled = TRUE])
             /\ lastEdit' = [op |-> "toggle", x |-> x,
                             type |-> currentLabelType,
                             before |-> old.label_indexes]
             /\ MarkLabelsDirty
             /\ UNCHANGED regionStart
  /\ UNCHANGED << currentSegment, currentLabelType, regionSelectionMode >>
  /\ UNCHANGED << fileVars, eraserVars >>
  /\ UNCHANGED << loadVars, detectVars, bridgeVars, streamVars, reviewVars >>

\* --------------------------------------------------------- renderer: eraser
\* a loop that walks the list forwards while it splices
RECURSIVE EraseForward(_, _, _)
EraseForward(arr, i, x) ==
  IF i > Len(arr) THEN arr
  ELSE EraseForward(IF Abs(arr[i] - x) <= ERASER_TOLERANCE
                    THEN Splice(arr, i) ELSE arr, i + 1, x)

EraseList_forward(arr, x) == EraseForward(arr, 1, x)

\* for (let i = labelArray.length - 1; i >= 0; i--)
\*   if (Math.abs(labelArray[i] - clickedIndex) <= ERASER_TOLERANCE) splice(i, 1)
RECURSIVE EraseLoop(_, _, _)
EraseLoop(arr, i, x) ==
  IF i = 0 THEN arr
  ELSE EraseLoop(IF Abs(arr[i] - x) <= ERASER_TOLERANCE
                 THEN Splice(arr, i) ELSE arr, i - 1, x)

EraseList(arr, x) == EraseLoop(arr, Len(arr), x)

\* the loop of eraseAtPositionNoUpdate over the four label types
EraseNear(indexes, x) == [t \in TypeSet |-> EraseList(indexes[t], x)]

\* eraseAtPositionNoUpdate(event): returns early without file data or
\* without a record for the current segment
EraseAtPositionNoUpdate(x) ==
  IF ~fileData \/ currentSegment \notin DOMAIN labels
  THEN UNCHANGED << labels, eraserModified, lastEdit >>
  ELSE LET old == labels[currentSegment].label_indexes
           new == EraseNear(old, x)
       IN /\ labels' = [labels EXCEPT ![currentSegment].label_indexes = new]
          /\ eraserModified' = (eraserModified \/ new # old)
          /\ lastEdit' = [op |-> "erase", x |-> x, type |-> currentLabelType,
                          before |-> old, by |-> "move"]

\* the body of handleEraserMouseUp(event) once eraserActive was found set
EraserRelease ==
  /\ eraserActive' = FALSE
  /\ IF eraserModified /\ currentSegment \in DOMAIN labels
     THEN /\ labels' = [labels EXCEPT ![currentSegment].labeled = TRUE]
          /\ MarkLabelsDirty
     ELSE UNCHANGED << labels, saveVars >>
  /\ UNCHANGED << eraserModified, lastEdit >>

\* handleEraserMouseDown(event)
HandleEraserMouseDown(onModebar, shiftKey, x) ==
  /\ fileData
  /\ IF ~shiftKey \/ onModebar
     THEN UNCHANGED << labels, lastEdit, eraserVars >>
     ELSE /\ eraserActive' = TRUE
          /\ IF ~fileData \/ currentSegment \notin DOMAIN labels
             THEN /\ eraserModified' = FALSE
                  /\ UNCHANGED << labels, lastEdit >>
             ELSE LET old == labels[currentSegment].label_indexes
                      new == EraseNear(old, x)
                  IN /\ labels' = [labels EXCEPT
                                     ![currentSegment].label_indexes = new]
                     /\ eraserModified' = (new # old)
                     /\ lastEdit' = [op |-> "erase", x |-> x,
                                     type |-> currentLabelType,
                                     before |-> old, by |-> "down"]
  /\ UNCHANGED << currentSegment, currentLabelType, regionSelectionMode,
                  regionStart >>
  /\ UNCHANGED << saveVars, fileVars >>
  /\ UNCHANGED << loadVars, detectVars, bridgeVars, streamVars, reviewVars >>

\* a pointer-move that erases whenever Shift is held
HandleEraserMouseMove_noActiveCheck(shiftKey, x) ==
  /\ fileData
  /\ IF ~shiftKey
     THEN IF eraserActive THEN EraserRelease
          ELSE UNCHANGED << labels, lastEdit, eraserVars, saveVars >>
     ELSE /\ EraseAtPositionNoUpdate(x)
          /\ UNCHANGED << eraserActive, saveVars >>
  /\ UNCHANGED << currentSegment, currentLabelType, regionSelectionMode,
                  regionStart >>
  /\ UNCHANGED fileVars
  /\ UNCHANGED << loadVars, detectVars, bridgeVars, streamVars, reviewVars >>

\* handleEraserMouseMove(event)
HandleEraserMouseMove(shiftKey, x) ==
  /\ fileData
  /\ IF ~eraserActive
     THEN UNCHANGED << labels, lastEdit, eraserVars, saveVars >>
     ELSE IF ~shiftKey
     THEN EraserRelease
     ELSE /\ EraseAtPositionNoUpdate(x)
          /\ UNCHANGED << eraserActive, saveVars >>
  /\ UNCHANGED << currentSegment, currentLabelType, regionSelectionMode,
                  regionStart >>
  /\ UNCHANGED fileVars
  /\ UNCHANGED << loadVars, detectVars, bridgeVars, streamVars, reviewVars >>

\* handleEraserMouseUp(event), also the mouseleave listener
HandleEraserMouseUp ==
  /\ fileData
  /\ IF eraserActive
     THEN EraserRelease
     ELSE UNCHANGED << labels, lastEdit, eraserVars, saveVars >>
  /\ UNCHANGED << currentSegment, currentLabelType, regionSelectionMode,
                  regionStart >>
  /\ UNCHANGED fileVars
  /\ UNCHANGED << loadVars, detectVars, bridgeVars, streamVars, reviewVars >>

\* handleEraserKeyUp(event) for the Shift key
HandleEraserKeyUp ==
  /\ eraserActive' = FALSE
  /\ UNCHANGED << editVars, saveVars, fileVars, eraserModified >>
  /\ UNCHANGED << loadVars, detectVars, bridgeVars, streamVars, reviewVars >>

NextToggle ==
  \/ \E t \in TypeSet : SelectLabelType(t)
  \/ \E onModebar \in BOOLEAN, shiftKey \in BOOLEAN, x \in ClickSamples :
       HandleDirectClick(onModebar, shiftKey, x)
  \/ \E onModebar \in BOOLEAN, shiftKey \in BOOLEAN, x \in ClickSamples :
       HandleEraserMouseDown(onModebar, shiftKey, x)
  \/ \E shiftKey \in BOOLEAN, x \in ClickSamples :
       HandleEraserMouseMove(shiftKey, x)
  \/ HandleEraserMouseUp
  \/ HandleEraserKeyUp

SpecToggle == InitOpened /\ [][NextToggle]_vars

StrictlyAscending(arr) ==
  \A i, j \in DOMAIN arr : i < j => arr[i] < arr[j]

\* C10: starting from a freshly created segment record, after any sequence of
\* point-toggle clicks (any sample index, any current label type) each of the
\* four label-type lists is sorted ascending and holds no value twice.
LabelListsSortedUnique ==
  \A seg \in DOMAIN labels : \A t \in TypeSet :
    StrictlyAscending(labels[seg].label_indexes[t])

\* the list of the current type holds two points, the lower one at sample 0
WitnessTwoPointsOneType ==
  /\ currentSegment \in DOMAIN labels
  /\ \E t \in TypeSet :
       /\ t = currentLabelType
       /\ Len(labels[currentSegment].label_indexes[t]) >= 2
       /\ labels[currentSegment].label_indexes[t][1] = 0

\* ---- point edits, stated on the lists before and after the edit
\* the label_indexes of the current segment (four empty lists without record)
CurrentIndexes ==
  IF currentSegment \in DOMAIN labels
  THEN labels[currentSegment].label_indexes
  ELSE [t \in TypeSet |-> << >>]

Range(arr) == { arr[i] : i \in DOMAIN arr }

PointCount(indexes) ==
  Len(indexes[LabelTypes[1]]) + Len(indexes[LabelTypes[2]])
    + Len(indexes[LabelTypes[3]]) + Len(indexes[LabelTypes[4]])

\* some point of the list lies within tol of x
HasNear(arr, x, tol) == \E i \in DOMAIN arr : Abs(arr[i] - x) <= tol

\* list b is list a without one of its points within tol of x
OneNearRemoved(a, b, x, tol) ==
  \E i \in DOMAIN a : Abs(a[i] - x) <= tol /\ b = Splice(a, i)

\* list b is list a with x added, in ascending order
AddedInOrder(a, b, x) ==
  /\ Len(b) = Len(a) + 1
  /\ Range(b) = Range(a) \cup {x}
  /\ \A i, j \in DOMAIN b : i < j => b[i] <= b[j]

\* the step is a point toggle at the sample and label type of the toggle
\* before it
SameToggleAgain ==
  /\ lastEdit.op = "toggle"
  /\ lastEdit' # lastEdit
  /\ lastEdit'.op = "toggle"
  /\ lastEdit'.x = lastEdit.x
  /\ lastEdit'.type = lastEdit.type
  /\ \A t \in TypeSet : ~HasNear(lastEdit.before[t], lastEdit.x, TOLERANCE)

\* C11: toggling the same sample twice in a row with the same label type,
\* when no other point of any type lies within the tolerance, first adds the
\* point and then removes it: the label_indexes of the segment are again
\* exactly what they were before the first toggle.
ToggleTwiceRestores ==
  [][SameToggleAgain =>
       /\ AddedInOrder(lastEdit.before[lastEdit.type],
                       CurrentIndexes[lastEdit.type], lastEdit.x)
       /\ \A t \in TypeSet \ {lastEdit.type} :
            CurrentIndexes[t] = lastEdit.before[t]
       /\ CurrentIndexes' = lastEdit.before]_vars

\* the last toggle removed the sample it clicked on from a segment that
\* holds another point
WitnessToggledBack ==
  /\ lastEdit.op = "toggle"
  /\ lastEdit.x \in Range(lastEdit.before[lastEdit.type])
  /\ lastEdit.x \notin Range(CurrentIndexes[lastEdit.type])
  /\ PointCount(CurrentIndexes) = 1
  /\ PointCount(lastEdit.before) = 2

\* C12: a click in normal mode at sample x scans all four label types: if
\* any type holds a point within TOLERANCE of x, exactly one such point is
\* removed, from the first such type, and nothing is added; otherwise x is
\* inserted into the current label type only. The number of points of the
\* segment changes by exactly -1 or +1.
ToggleSearchesAllTypes ==
  lastEdit.op = "toggle" =>
    LET b == lastEdit.before
        x == lastEdit.x
        now == CurrentIndexes
        near == { k \in DOMAIN LabelTypes : HasNear(b[LabelTypes[k]], x, TOLERANCE) }
    IN /\ IF near # {}
          THEN LET k == CHOOSE m \in near : \A n \in near : m <= n IN
               /\ OneNearRemoved(b[LabelTypes[k]], now[LabelTypes[k]], x, TOLERANCE)
               /\ \A t \in TypeSet \ {LabelTypes[k]} : now[t] = b[t]
               /\ PointCount(now) = PointCount(b) - 1
          ELSE /\ AddedInOrder(b[lastEdit.type], now[lastEdit.type], x)
               /\ \A t \in TypeSet \ {lastEdit.type} : now[t] = b[t]
               /\ PointCount(now) = PointCount(b) + 1

\* a click with the fourth type selected removed a point of the first type
WitnessRemovedFromOtherType ==
  /\ lastEdit.op = "toggle"
  /\ lastEdit.type = LabelTypes[4]
  /\ lastEdit.before[LabelTypes[1]] # << >>
  /\ CurrentIndexes[LabelTypes[1]] = << >>
  /\ lastEdit.before[LabelTypes[4]] = CurrentIndexes[LabelTypes[4]]

\* C13: an erase at sample x removes every point, of all four types, whose
\* distance to x is at most ERASER_TOLERANCE and no point farther away;
\* repeating the same erase at once removes nothing.
EraseRemovesNearOnly ==
  [][/\ lastEdit'.op = "erase" =>
          \A t \in TypeSet :
            LET Far(v) == Abs(v - lastEdit'.x) > ERASER_TOLERANCE
            IN CurrentIndexes'[t] = SelectSeq(lastEdit'.before[t], Far)
     /\ (lastEdit.op = "erase" /\ lastEdit'.op = "erase"
           /\ lastEdit'.x = lastEdit.x)
          => CurrentIndexes' = CurrentIndexes]_vars

\* an erase removed one point and kept a point farther away
WitnessErasedOneKeptOne ==
  /\ lastEdit.op = "erase"
  /\ PointCount(lastEdit.before) = 2
  /\ PointCount(CurrentIndexes) = 1

\* ------------------------------------------------ renderer: region selection
\* sample indices of the clicks that place regions
RegionSamples == { 0, 5, 10 }

\* a toggle that leaves the pending region start where it is
ToggleRegionMode_keepsStart ==
  /\ regionSelectionMode' = ~regionSelectionMode
  /\ UNCHANGED regionStart
  /\ UNCHANGED << labels, currentSegment, currentLabelType, lastEdit >>
  /\ UNCHANGED << saveVars, fileVars, eraserVars >>
  /\ UNCHANGED << loadVars, detectVars, bridgeVars, streamVars, reviewVars >>

\* toggleRegionMode()
ToggleRegionMode ==
  /\ regionSelectionMode' = ~regionSelectionMode
  /\ regionStart' = << >>
  /\ UNCHANGED << labels, currentSegment, currentLabelType, lastEdit >>
  /\ UNCHANGED << saveVars, fileVars, eraserVars >>
  /\ UNCHANGED << loadVars, detectVars, bridgeVars, streamVars, reviewVars >>

\* clearRegions()
ClearRegions ==
  /\ IF currentSegment \in DOMAIN labels
        /\ labels[currentSegment].highlighted_regions # << >>
     THEN /\ labels' = [labels EXCEPT ![currentSegment].highlighted_regions = << >>]
          /\ MarkLabelsDirty
     ELSE UNCHANGED << labels, saveVars >>
  /\ UNCHANGED << currentSegment, currentLabelType, regionSelectionMode,
                  regionStart, lastEdit >>
  /\ UNCHANGED << fileVars, eraserVars >>
  /\ UNCHANGED << loadVars, detectVars, bridgeVars, streamVars, reviewVars >>

\* the regions of the current segment
CurrentRegions ==
  IF currentSegment \in DOMAIN labels
  THEN labels[currentSegment].highlighted_regions ELSE << >>

\* a click on the graph while region selection is on
RegionClick(onModebar, shiftKey, x) ==
  /\ regionSelectionMode
  /\ Len(CurrentRegions) < MaxRegions
  /\ HandleDirectClick(onModebar, shiftKey, x)

NextRegion ==
  \/ ToggleRegionMode
  \/ ClearRegions
  \/ \E onModebar \in BOOLEAN, shiftKey \in BOOLEAN, x \in RegionSamples :
       RegionClick(onModebar, shiftKey, x)

SpecRegion == InitOpened /\ [][NextRegion]_vars

\* C14: in region selection mode the first click only records regionStart;
\* the second click, at b after a first click at a, appends exactly one
\* region {start: min(a, b), end: max(a, b)} to the current segment, resets
\* regionStart to null and leaves region selection mode on.
RegionCommitOrdered ==
  [][/\ (regionSelectionMode /\ regionStart = << >> /\ regionStart' # << >>)
          => /\ regionStart' = << lastEdit'.x >>
             /\ labels' = labels
             /\ labelsDirty' = labelsDirty
             /\ regionSelectionMode'
     /\ (regionSelectionMode /\ regionStart # << >> /\ regionStart' = << >>
           /\ regionSelectionMode')
          => LET a == regionStart[1]
                 b == lastEdit'.x
                 lo == IF a <= b THEN a ELSE b
                 hi == IF a <= b THEN b ELSE a
             IN /\ CurrentRegions' =
                     Append(CurrentRegions, [start |-> lo, end |-> hi])
                /\ CurrentIndexes' = CurrentIndexes
                /\ regionSelectionMode'
                /\ labelsDirty']_vars

\* committing (10, 5) stored {start: 5, end: 10} as a second region, and
\* the mode is still on, waiting for a start
WitnessRegionTenFive ==
  /\ regionSelectionMode
  /\ regionStart = << >>
  /\ lastEdit = [op |-> "regionEnd", x |-> 5]
  /\ Len(CurrentRegions) = 2
  /\ CurrentRegions[2] = [start |-> 5, end |-> 10]

\* ------------------------------------------------ renderer: auto-save
\* what runs after an awaited saveLabels(): nothing, or the rest of
\* navigateSegment with the segment it computed
NoThen == [kind |-> "none", seg |-> 0, file |-> None]
ThenNavigate(seg) == [kind |-> "navigate", seg |-> seg, file |-> None]
\* ... or the rest of loadFile with the file name it read from the dropdown
ThenLoad(file) == [kind |-> "load", seg |-> 0, file |-> file]

\* what follows the await: navigateSegment sets the segment; loadFile sets
\* state.currentFile and asks for the file
Continue(then) ==
  /\ currentSegment' = IF then.kind = "navigate" THEN then.seg
                       ELSE currentSegment
  /\ currentFile' = IF then.kind = "load" THEN then.file ELSE currentFile
  /\ loads' = IF then.kind = "load"
              THEN Append(loads, [file |-> then.file, pc |-> "file"])
              ELSE loads

\* window.electronAPI.saveLabels(state.currentFile, ..., state.labels, ...):
\* the request carries a copy of the labels
IssueSave(by, then) ==
  saves' = Append(saves, [file |-> currentFile, labels |-> labels,
                          by |-> by, then |-> then])

\* the part of saveIfDirty() under its condition, without the clearTimeout
CancelAndSave_keepsTimer(then) ==
  /\ IssueSave("flush", then)
  /\ UNCHANGED << labelsDirty, autoSaveTimeout, pendingTimers, handleLive >>

\* the part of saveIfDirty() under its condition: clear the pending timer,
\* forget its handle, call saveLabels(false)
CancelAndSave(then) ==
  /\ IF autoSaveTimeout
     THEN /\ pendingTimers' = IF handleLive THEN pendingTimers - 1
                              ELSE pendingTimers
          /\ handleLive' = FALSE
          /\ autoSaveTimeout' = FALSE
     ELSE UNCHANGED << pendingTimers, handleLive, autoSaveTimeout >>
  /\ IssueSave("flush", then)
  /\ UNCHANGED labelsDirty

\* the input listener of the review note: handleReviewNoteChange(e)
HandleReviewNoteChange(note) ==
  /\ fileData
  /\ LET old == IF currentSegment \in DOMAIN labels
                THEN labels[currentSegment] ELSE NewSegment(FALSE)
     IN labels' = MapSet(labels, currentSegment,
                         [old EXCEPT !.review_note = note])
  /\ MarkLabelsDirty
  /\ lastEdit' = [op |-> "note"]
  /\ UNCHANGED << currentSegment, currentLabelType, regionSelectionMode,
                  regionStart >>
  /\ UNCHANGED << fileVars, eraserVars >>
  /\ UNCHANGED << loadVars, detectVars, bridgeVars, streamVars, reviewVars >>

\* navigateSegment(direction) up to its await: saveIfDirty() either finds
\* nothing to save, and the segment changes at once, or issues a save whose
\* result the rest of the function waits for
NavigateSegment(direction) ==
  /\ fileData
  /\ LET newSegment == currentSegment + direction IN
     IF newSegment >= 0 /\ newSegment < segments
     THEN IF labelsDirty /\ currentFile # None
          THEN /\ Len(saves) < MaxSaves
               /\ CancelAndSave(ThenNavigate(newSegment))
               /\ UNCHANGED currentSegment
          ELSE /\ currentSegment' = newSegment
               /\ UNCHANGED saveVars
     ELSE UNCHANGED << currentSegment, saveVars >>
  /\ lastEdit' = [op |-> "navigate", seg |-> currentSegment + direction]
  /\ UNCHANGED << labels, currentLabelType, regionSelectionMode, regionStart >>
  /\ UNCHANGED << fileVars, eraserVars >>
  /\ UNCHANGED << loadVars, detectVars, bridgeVars, streamVars, reviewVars >>

\* the callback scheduleAutoSave() gave to setTimeout
AutoSaveTimerFires ==
  /\ pendingTimers > 0
  /\ pendingTimers' = pendingTimers - 1
  /\ handleLive' = FALSE
  /\ IF labelsDirty /\ currentFile # None
     THEN IssueSave("timer", NoThen)
     ELSE UNCHANGED saves
  /\ lastEdit' = [op |-> "timer"]
  /\ UNCHANGED << labelsDirty, autoSaveTimeout >>
  /\ UNCHANGED << labels, currentSegment, currentLabelType,
                  regionSelectionMode, regionStart >>
  /\ UNCHANGED << fileVars, eraserVars >>
  /\ UNCHANGED << loadVars, detectVars, bridgeVars, streamVars, reviewVars >>

\* the click listener of the save button: saveLabels(event) up to its await
SaveLabelsButton ==
  /\ fileData
  /\ IF currentFile # None
     THEN /\ Len(saves) < MaxSaves
          /\ IssueSave("button", NoThen)
     ELSE UNCHANGED saves
  /\ lastEdit' = [op |-> "button"]
  /\ UNCHANGED << labelsDirty, autoSaveTimeout, pendingTimers, handleLive >>
  /\ UNCHANGED << labels, currentSegment, currentLabelType,
                  regionSelectionMode, regionStart >>
  /\ UNCHANGED << fileVars, eraserVars >>
  /\ UNCHANGED << loadVars, detectVars, bridgeVars, streamVars, reviewVars >>

\* a saveLabels() whose result clears the flag whatever it says
SaveResult_alwaysClears(i, success) ==
  /\ i \in DOMAIN saves
  /\ saves' = Splice(saves, i)
  /\ labelsDirty' = FALSE
  /\ Continue(saves[i].then)
  /\ lastEdit' = [op |-> "saved", by |-> saves[i].by, success |-> success,
                  then |-> saves[i].then]
  /\ UNCHANGED << autoSaveTimeout, pendingTimers, handleLive >>
  /\ UNCHANGED << labels, currentLabelType, regionSelectionMode, regionStart >>
  /\ UNCHANGED << fileData, segments, eraserVars, labelsFile >>
  /\ UNCHANGED << detectVars, bridgeVars, streamVars, reviewVars >>

\* the result of request i arrives: the rest of saveLabels() (success clears
\* the flag, a failure of a silent save does nothing) and then the rest of
\* the function that awaited it
SaveResult(i, success) ==
  /\ i \in DOMAIN saves
  /\ saves' = Splice(saves, i)
  /\ labelsDirty' = IF success THEN FALSE ELSE labelsDirty
  /\ Continue(saves[i].then)
  /\ lastEdit' = [op |-> "saved", by |-> saves[i].by, success |-> success,
                  then |-> saves[i].then]
  /\ UNCHANGED << autoSaveTimeout, pendingTimers, handleLive >>
  /\ UNCHANGED << labels, currentLabelType, regionSelectionMode, regionStart >>
  /\ UNCHANGED << fileData, segments, eraserVars, labelsFile >>
  /\ UNCHANGED << detectVars, bridgeVars, streamVars, reviewVars >>

\* the result arrives, seen from the renderer alone: the content of the
\* label files, which nothing in these behaviours reads, is left out
SaveReturns(i, success) ==
  /\ SaveResult(i, success)
  /\ UNCHANGED storedLabels

\* the engine's save_labels: the label file of the named file now holds the
\* labels the request carried
EngineSaveLabels(stored, file, saved) == [stored EXCEPT ![file] = saved]

\* the result arrives, with the label file the engine wrote before it
\* answered with success
SaveAndWrite(i, success) ==
  /\ SaveResult(i, success)
  /\ storedLabels' = IF success
                     THEN EngineSaveLabels(storedLabels, saves[i].file,
                                           saves[i].labels)
                     ELSE storedLabels

\* texts typed into the review note
Notes == { "check" }

\* the user types while fewer than MaxSaves saves await their result
TypeNote(note) ==
  /\ Len(saves) < MaxSaves
  /\ HandleReviewNoteChange(note)

NextSave ==
  \/ \E note \in Notes : TypeNote(note)
  \/ \E direction \in { -1, 1 } : NavigateSegment(direction)
  \/ AutoSaveTimerFires
  \/ SaveLabelsButton
  \/ \E i \in 1 .. MaxSaves + 1, success \in BOOLEAN : SaveReturns(i, success)

SpecSave == InitOpened /\ [][NextSave]_vars

\* the timer callback runs some time after the timer was set
FairSpecSave == SpecSave /\ WF_vars(AutoSaveTimerFires)

InRange(seg) == seg >= 0 /\ seg < NumSegments

\* the step is a navigateSegment() that calls saveIfDirty() with the flag
\* set, a file open and the debounce timer still pending
FlushBeforeTimer ==
  /\ lastEdit'.op = "navigate"
  /\ InRange(lastEdit'.seg)
  /\ labelsDirty
  /\ currentFile # None
  /\ pendingTimers > 0

\* C15: markLabelsDirty() followed by saveIfDirty() before the debounce timer
\* fires produces exactly one persistence call, and the timer, cancelled,
\* produces no second one: no timer is left pending.
FlushCancelsTimer ==
  [][FlushBeforeTimer =>
       /\ Len(saves') = Len(saves) + 1
       /\ SubSeq(saves', 1, Len(saves)) = saves
       /\ saves'[Len(saves')].by = "flush"
       /\ saves'[Len(saves')].labels = labels
       /\ pendingTimers' = 0
       /\ ~handleLive'
       /\ ~autoSaveTimeout']_vars

\* a flush issued the only save in flight and no timer is pending
WitnessFlushedOnce ==
  /\ lastEdit.op = "navigate"
  /\ labelsDirty
  /\ Len(saves) = 1
  /\ saves[1].by = "flush"
  /\ pendingTimers = 0

\* at most one timer is pending, and it is the one the handle names
SingleTimer ==
  /\ pendingTimers <= 1
  /\ pendingTimers = 1 => (autoSaveTimeout /\ handleLive)

\* what markLabelsDirty(), the timer callback and the result of the timer's
\* save do
DebounceSteps ==
  /\ lastEdit'.op = "note" =>
       labelsDirty' /\ pendingTimers' = 1 /\ handleLive'
  /\ lastEdit'.op = "timer" =>
       /\ labelsDirty' = labelsDirty
       /\ IF labelsDirty /\ currentFile # None
          THEN saves' = Append(saves, [file |-> currentFile, labels |-> labels,
                                       by |-> "timer", then |-> NoThen])
          ELSE saves' = saves
  /\ (lastEdit'.op = "saved" /\ lastEdit'.by = "timer" /\ lastEdit'.success) =>
       ~labelsDirty'

\* C16: markLabelsDirty() sets the flag and restarts the single debounce
\* timer: at most one timer is pending at any time, and a pending timer
\* comes to fire (or is cancelled by a flush) after the last of a burst of
\* markLabelsDirty() calls; a timer that fires with the flag set and a file
\* open issues one silent save, which on success clears the flag; a timer
\* that fires with the flag clear or no file open issues none.
DebounceSingleTimer ==
  /\ []SingleTimer
  /\ [][DebounceSteps]_vars
  /\ (pendingTimers = 1) ~> (pendingTimers = 0)

\* the timer fired with the flag set and its save is in flight, while a
\* later markLabelsDirty() has a new timer pending
WitnessTimerSaveInFlight ==
  /\ pendingTimers = 1
  /\ labelsDirty
  /\ \E i \in DOMAIN saves : saves[i].by = "timer"

\* C17: a failed save leaves the flag as it was and the function that
\* awaited it goes on (navigation changes the segment); the next auto-save
\* attempt, by the timer or by saveIfDirty(), finds the flag set and issues
\* a save again.
FailedSaveKeepsDirty ==
  [][/\ (lastEdit'.op = "saved" /\ ~lastEdit'.success) =>
          /\ labelsDirty' = labelsDirty
          /\ Len(saves') = Len(saves) - 1
          /\ lastEdit'.then.kind = "navigate" =>
               currentSegment' = lastEdit'.then.seg
     /\ (labelsDirty /\ currentFile # None
           /\ \/ lastEdit'.op = "timer"
              \/ lastEdit'.op = "navigate" /\ InRange(lastEdit'.seg)) =>
          /\ Len(saves') = Len(saves) + 1
          /\ saves'[Len(saves')].labels = labels]_vars

\* the flush of a navigation failed: the flag is still set, the segment
\* changed, nothing is in flight
WitnessFailedFlush ==
  /\ lastEdit.op = "saved"
  /\ ~lastEdit.success
  /\ lastEdit.by = "flush"
  /\ labelsDirty
  /\ currentSegment = 1
  /\ saves = << >>

\* ------------------------------------------------ renderer: review and done
\* stripExtension(filename): cuts a trailing .h5 or .hdf5
StripExtension(filename) ==
  IF filename = "a.h5" \/ filename = "a.hdf5" THEN "a" ELSE filename

\* a toggleReview() that refuses every toggle on a done file
ReviewBlocked_whenDone(isDone, currentReviewState) == isDone

\* toggleReview(): if (isDone && !currentReviewState) { alert; return }
ReviewBlocked(isDone, currentReviewState) == isDone /\ ~currentReviewState

\* segments of the label store with review === true (getSegmentsWithReview,
\* and the loop of updateReviewFilesState)
SegmentsWithReview(store) == { seg \in DOMAIN store : store[seg].review }

\* Array.prototype.indexOf, 1-based here, 0 for "not found"
IndexOf(arr, x) ==
  IF \E i \in DOMAIN arr : arr[i] = x
  THEN CHOOSE i \in DOMAIN arr :
         arr[i] = x /\ \A j \in 1 .. i - 1 : arr[j] # x
  ELSE 0

\* an updateReviewFilesState() that pushes without looking the name up
UpdateReviewFilesState_pushesAgain(store) ==
  LET fileBaseName == StripExtension(currentFile) IN
  IF SegmentsWithReview(store) # {}
  THEN Append(reviewFiles, fileBaseName)
  ELSE IF IndexOf(reviewFiles, fileBaseName) # 0
       THEN Splice(reviewFiles, IndexOf(reviewFiles, fileBaseName))
       ELSE reviewFiles

\* updateReviewFilesState() for the label store given
UpdateReviewFilesState(store) ==
  LET fileBaseName == StripExtension(currentFile)
      hasReview == SegmentsWithReview(store) # {}
      index == IndexOf(reviewFiles, fileBaseName)
  IN IF hasReview /\ index = 0
     THEN Append(reviewFiles, fileBaseName)
     ELSE IF ~hasReview /\ index # 0
          THEN Splice(reviewFiles, index)
          ELSE reviewFiles

\* toggleReview()
ToggleReview ==
  /\ fileData
  /\ LET isDone == currentFile # None /\ currentFile \in doneFiles
         currentReviewState ==
           currentSegment \in DOMAIN labels /\ labels[currentSegment].review
         old == IF currentSegment \in DOMAIN labels
                THEN labels[currentSegment] ELSE NewSegment(FALSE)
         new == MapSet(labels, currentSegment,
                       [old EXCEPT !.review = ~old.review])
     IN /\ lastEdit' = [op |-> "review", done |-> isDone,
                        was |-> currentReviewState]
        /\ IF ReviewBlocked(isDone, currentReviewState)
           THEN UNCHANGED << labels, reviewFiles, saveVars >>
           ELSE /\ labels' = new
                /\ reviewFiles' = UpdateReviewFilesState(new)
                /\ MarkLabelsDirty
  /\ UNCHANGED << currentSegment, currentLabelType, regionSelectionMode,
                  regionStart >>
  /\ UNCHANGED << fileVars, eraserVars >>
  /\ UNCHANGED << doneFiles, toggles, storedDone >>
  /\ UNCHANGED << loadVars, detectVars, bridgeVars, streamVars >>

\* toggleDone() up to its await
ToggleDone ==
  /\ fileData
  /\ lastEdit' = [op |-> "done"]
  /\ IF currentFile = None
     THEN UNCHANGED toggles
     ELSE IF currentFile \notin doneFiles /\ SegmentsWithReview(labels) # {}
     THEN UNCHANGED toggles
     ELSE /\ Len(toggles) < MaxToggles
          /\ toggles' = Append(toggles, [file |-> currentFile])
  /\ UNCHANGED << labels, currentSegment, currentLabelType,
                  regionSelectionMode, regionStart >>
  /\ UNCHANGED << saveVars, fileVars, eraserVars >>
  /\ UNCHANGED << doneFiles, reviewFiles, storedDone >>
  /\ UNCHANGED << loadVars, detectVars, bridgeVars, streamVars >>

\* the engine's toggle_done_file: the file enters the stored done files, or
\* leaves them when it is there; the new list is the result
EngineToggleDone(stored, file) ==
  IF file \in stored THEN stored \ {file} ELSE stored \cup {file}

\* the result of the oldest toggleDoneFile request arrives: the rest of
\* toggleDone()
ToggleDoneResult(success) ==
  /\ toggles # << >>
  /\ toggles' = Tail(toggles)
  /\ lastEdit' = [op |-> "doneResult", success |-> success]
  /\ IF success
     THEN /\ storedDone' = EngineToggleDone(storedDone, Head(toggles).file)
          /\ doneFiles' = storedDone'
     ELSE UNCHANGED << storedDone, doneFiles >>
  /\ UNCHANGED reviewFiles
  /\ UNCHANGED << labels, currentSegment, currentLabelType,
                  regionSelectionMode, regionStart >>
  /\ UNCHANGED << saveVars, fileVars, eraserVars >>
  /\ UNCHANGED << loadVars, detectVars, bridgeVars, streamVars >>

\* the user changes segment while no save awaits its result
NavigateIdle(direction) ==
  /\ saves = << >>
  /\ NavigateSegment(direction)

NextReview ==
  \/ ToggleReview
  \/ ToggleDone
  \/ \E success \in BOOLEAN : ToggleDoneResult(success)
  \/ \E direction \in { -1, 1 } : NavigateIdle(direction)
  \/ \E i \in 1 .. MaxSaves, success \in BOOLEAN : SaveReturns(i, success)

SpecReview == InitOpened /\ [][NextReview]_vars

\* the review flag of the current segment
CurrentReview ==
  currentSegment \in DOMAIN labels /\ labels[currentSegment].review

\* C18: toggling review on for a segment while the current file is done is
\* rejected, with the label store, the review files and the dirty flag all
\* unchanged; toggling review off while the file is done is accepted and
\* clears the review flag of the segment.
ReviewOnRejectedWhenDone ==
  [][(lastEdit'.op = "review" /\ currentFile \in doneFiles) =>
       IF CurrentReview
       THEN /\ currentSegment \in DOMAIN labels'
            /\ ~labels'[currentSegment].review
            /\ labelsDirty'
       ELSE /\ labels' = labels
            /\ reviewFiles' = reviewFiles
            /\ labelsDirty' = labelsDirty
            /\ pendingTimers' = pendingTimers]_vars

\* review was switched off on a segment of a done file
WitnessReviewOffWhileDone ==
  /\ lastEdit = [op |-> "review", done |-> TRUE, was |-> TRUE]
  /\ currentFile \in doneFiles
  /\ ~CurrentReview
  /\ labelsDirty

\* C19: a file never enters the done files while one of its segments is
\* flagged for review: toggleDone() on a file that is not done and has a
\* segment with review = true sends no request and leaves the done files
\* unchanged, and at the moment the file is added to the done files none of
\* its segments has review = true, whatever toggleReview() calls run while
\* toggleDone() awaits its result.
NoDoneWhileReview ==
  [][/\ (lastEdit'.op = "done" /\ currentFile \notin doneFiles
           /\ SegmentsWithReview(labels) # {}) =>
          (toggles' = toggles /\ doneFiles' = doneFiles)
     /\ (currentFile \notin doneFiles /\ currentFile \in doneFiles') =>
          SegmentsWithReview(labels') = {}]_vars

\* C24: switching region selection on or off clears the pending region
\* start and changes no label record, so outside the mode no start is ever
\* pending; a region is added to a segment only by a second click made in
\* the mode, never by leaving it with one click done.
RegionToggleDiscardsPending ==
  /\ [](~regionSelectionMode => regionStart = << >>)
  /\ [][/\ regionSelectionMode' # regionSelectionMode =>
             (regionStart' = << >> /\ labels' = labels
                /\ labelsDirty' = labelsDirty)
        /\ Len(CurrentRegions') > Len(CurrentRegions) =>
             /\ regionSelectionMode /\ regionSelectionMode'
             /\ regionStart # << >>
             /\ lastEdit'.op = "regionEnd"]_vars

\* the mode was left after the first click of a region: nothing is pending
\* and the segment has no region
WitnessLeftAwaitingEnd ==
  /\ ~regionSelectionMode
  /\ lastEdit.op = "regionStart"
  /\ regionStart = << >>
  /\ CurrentRegions = << >>

\* ------------------------------------------------ renderer: editing modes
\* a right click that removes a nearby point from every type that has one
RemoveFirstNear_everyType(indexes, x) ==
  [t \in TypeSet |->
     IF FindNearby(indexes[t], x) # 0
     THEN Splice(indexes[t], FindNearby(indexes[t], x))
     ELSE indexes[t]]

\* the loop of handleGraphRightClick over the four label types: the first
\* point found within TOLERANCE is spliced out, then break
RemoveFirstNear(indexes, x) ==
  LET k == FirstTypeNear(indexes, x) IN
  IF k # 0
  THEN [indexes EXCEPT ![LabelTypes[k]] = Splice(@, FindNearby(@, x))]
  ELSE indexes

\* handleGraphRightClick(event), the contextmenu listener: hovered says that
\* state.lastHoverData holds a point, x is the sample of that point
HandleGraphRightClick(hovered, x) ==
  /\ fileData
  /\ IF ~hovered \/ currentSegment \notin DOMAIN labels
     THEN UNCHANGED << labels, lastEdit, saveVars >>
     ELSE LET old == labels[currentSegment].label_indexes
              new == RemoveFirstNear(old, x)
          IN /\ lastEdit' = [op |-> "rightClick", x |-> x, before |-> old]
             /\ IF new # old
                THEN /\ labels' = [labels EXCEPT
                                     ![currentSegment].label_indexes = new,
                                     ![currentSegment].labeled = TRUE]
                     /\ MarkLabelsDirty
                ELSE UNCHANGED << labels, saveVars >>
  /\ UNCHANGED << currentSegment, currentLabelType, regionSelectionMode,
                  regionStart >>
  /\ UNCHANGED << fileVars, eraserVars >>
  /\ UNCHANGED << loadVars, detectVars, bridgeVars, streamVars, reviewVars >>

\* sample indices of the pointer in the mode checks: two of them within
\* TOLERANCE of the middle one and farther than that from each other
ModeSamples == { 0, TOLERANCE, 2 * TOLERANCE }

\* a click on the graph while region selection is off
PointClick(onModebar, shiftKey, x) ==
  /\ ~regionSelectionMode
  /\ HandleDirectClick(onModebar, shiftKey, x)

\* a click on the graph while region selection is on and the segment has
\* no region yet
FirstRegionClick(onModebar, shiftKey, x) ==
  /\ regionSelectionMode
  /\ CurrentRegions = << >>
  /\ HandleDirectClick(onModebar, shiftKey, x)

\* the label types the user selects in the mode checks: the first and the
\* last of the scan order
ModeTypes == { LabelTypes[1], LabelTypes[4] }

NextModes ==
  \/ \E t \in ModeTypes : SelectLabelType(t)
  \/ \E onModebar \in BOOLEAN, shiftKey \in BOOLEAN, x \in ModeSamples :
       PointClick(onModebar, shiftKey, x)
  \/ \E onModebar \in BOOLEAN, shiftKey \in BOOLEAN, x \in ModeSamples :
       FirstRegionClick(onModebar, shiftKey, x)
  \/ ToggleRegionMode
  \/ \E onModebar \in BOOLEAN, shiftKey \in BOOLEAN, x \in ModeSamples :
       HandleEraserMouseDown(onModebar, shiftKey, x)
  \/ \E shiftKey \in BOOLEAN, x \in ModeSamples :
       HandleEraserMouseMove(shiftKey, x)
  \/ HandleEraserMouseUp
  \/ HandleEraserKeyUp
  \/ \E hovered \in BOOLEAN, x \in ModeSamples :
       HandleGraphRightClick(hovered, x)

SpecModes == InitOpened /\ [][NextModes]_vars

\* C21: while region selection is on and the eraser is not active, no step
\* activates the eraser and no erase removes a point: a pointer-down with
\* Shift held is ignored.
EraserIgnoredInRegionMode ==
  [][(regionSelectionMode /\ ~eraserActive) =>
       /\ ~eraserActive'
       /\ ~(/\ lastEdit' # lastEdit
            /\ lastEdit'.op = "erase"
            /\ CurrentIndexes' # CurrentIndexes)]_vars

\* the step is an erase: eraseAtPositionNoUpdate() got as far as its loop
EraseStep == lastEdit' # lastEdit /\ lastEdit'.op = "erase"

\* the points farther than ERASER_TOLERANCE from x
FarFrom(arr, x) ==
  LET Far(v) == Abs(v - x) > ERASER_TOLERANCE IN SelectSeq(arr, Far)

\* C22: erasing happens exactly while the eraser is active. The eraser
\* becomes active only in a pointer-down, which erases around its sample;
\* an erase by a pointer-move happens only while the eraser is and stays
\* active, and erases around its sample at once; the step that ends the
\* eraser (Shift released, pointer-up, pointer-leave, or a move without
\* Shift) removes no point; and while the eraser is inactive the only
\* erase is the pointer-down that activates it.
ErasingOnlyWhileActive ==
  [][/\ EraseStep =>
          /\ eraserActive'
          /\ \A t \in TypeSet :
               CurrentIndexes'[t] = FarFrom(CurrentIndexes[t], lastEdit'.x)
     /\ (EraseStep /\ lastEdit'.by = "move") => eraserActive
     /\ (~eraserActive /\ eraserActive') =>
          /\ currentSegment \in DOMAIN labels =>
               lastEdit'.op = "erase" /\ lastEdit'.by = "down"
          /\ \E x \in ModeSamples : \A t \in TypeSet :
               CurrentIndexes'[t] = FarFrom(CurrentIndexes[t], x)
     /\ (eraserActive /\ ~eraserActive') => CurrentIndexes' = CurrentIndexes
     /\ (~eraserActive /\ ~eraserActive' /\ CurrentIndexes' # CurrentIndexes)
          => lastEdit'.op \in { "toggle", "rightClick" }]_vars

\* a sweep has ended: the pointer-down removed nothing, a pointer-move after
\* it removed a point, and the eraser is inactive again
WitnessSweepEnded ==
  /\ ~eraserActive
  /\ eraserModified
  /\ lastEdit.op = "erase"
  /\ lastEdit.by = "move"
  /\ PointCount(lastEdit.before) = PointCount(CurrentIndexes) + 1

\* the step is a right click that got as far as its loop
RightClickStep == lastEdit' # lastEdit /\ lastEdit'.op = "rightClick"

\* C23: a right click does the same in every mode. With a point of some type
\* within TOLERANCE of its sample it removes exactly one such point, of one
\* type, and leaves the other lists as they were; with none it removes
\* nothing. It adds no point and no region, and leaves region selection
\* mode, the pending regionStart and the eraser-active flag unchanged.
RightClickSameInEveryMode ==
  [][RightClickStep =>
       LET x == lastEdit'.x
           before == CurrentIndexes
           after == CurrentIndexes'
       IN /\ IF \E t \in TypeSet : HasNear(before[t], x, TOLERANCE)
             THEN \E t \in TypeSet :
                    /\ OneNearRemoved(before[t], after[t], x, TOLERANCE)
                    /\ \A u \in TypeSet \ {t} : after[u] = before[u]
             ELSE after = before
          /\ CurrentRegions' = CurrentRegions
          /\ regionSelectionMode' = regionSelectionMode
          /\ regionStart' = regionStart
          /\ eraserActive' = eraserActive]_vars

\* in region selection mode, with a region start pending, a right click
\* between two points of different types removed one and kept the other
WitnessRightClickInRegionMode ==
  /\ lastEdit.op = "rightClick"
  /\ regionSelectionMode
  /\ regionStart # << >>
  /\ PointCount(lastEdit.before) = 2
  /\ \A t \in TypeSet : Len(lastEdit.before[t]) <= 1
  /\ \A t \in TypeSet : HasNear(lastEdit.before[t], lastEdit.x, TOLERANCE)
                          \/ lastEdit.before[t] = << >>
  /\ PointCount(CurrentIndexes) = 1

\* ------------------------------------------------------------ loading a file
\* the point lists a label file on disk may hold for one type
StoredPointLists == { << >>, << 3, 8 >> }

\* a segment record of a label file in the current shape
StoredCurrent(sys, dia) ==
  [labeled |-> TRUE,
   label_indexes |->
     [t \in TypeSet |->
        IF t = "compression_systolic_points" THEN sys
        ELSE IF t = "spontaneous_diastolic_points" THEN dia
        ELSE << >>]]

\* a segment record with the point arrays directly in it
StoredInline(sys, dia) ==
  [labeled |-> TRUE,
   compression_systolic_points |-> sys,
   spontaneous_diastolic_points |-> dia]

\* a segment record with the point arrays under signals.<name>.label_indexes
StoredSignals(sys, dia) ==
  [labeled |-> TRUE,
   signals |->
     [ABP |-> [label_indexes |->
                 [compression_systolic_points |-> sys,
                  spontaneous_diastolic_points |-> dia]]]]

\* the label files a file of the folder may have: none, or one with a
\* record for segment 0 in one of the three shapes
StoredFiles ==
  { << >> } \cup
  { (0 :> r) : r \in UNION { { StoredCurrent(sys, dia),
                                StoredInline(sys, dia),
                                StoredSignals(sys, dia) } :
                              sys \in StoredPointLists,
                              dia \in StoredPointLists } }

\* where a stored segment record keeps its point arrays: label_indexes, the
\* label_indexes of its signal, or the record itself
StoredIndexes(rec) ==
  IF "label_indexes" \in DOMAIN rec THEN rec.label_indexes
  ELSE IF "signals" \in DOMAIN rec
       THEN LET s == CHOOSE n \in DOMAIN rec.signals : TRUE
            IN rec.signals[s].label_indexes
       ELSE rec

\* the engine's normalisation of one stored segment record: the current
\* shape, with all four types under label_indexes
NormalizeSegment(rec) ==
  [labeled |-> IF "labeled" \in DOMAIN rec THEN rec.labeled ELSE FALSE,
   review |-> IF "review" \in DOMAIN rec THEN rec.review ELSE FALSE,
   review_note |-> IF "review_note" \in DOMAIN rec THEN rec.review_note
                   ELSE "",
   label_indexes |->
     [t \in TypeSet |-> IF t \in DOMAIN StoredIndexes(rec)
                        THEN StoredIndexes(rec)[t] ELSE << >>],
   highlighted_regions |->
     IF "highlighted_regions" \in DOMAIN rec THEN rec.highlighted_regions
     ELSE << >>]

\* the engine's load_labels: every segment record of the label file,
\* normalised (no label file: no records)
EngineLoadLabels(stored) ==
  [seg \in DOMAIN stored |-> NormalizeSegment(stored[seg])]

\* ipcMain.handle('load-labels'): the envelope around the engine's answer
LoadLabelsReply(engineOk, engineLabels) ==
  IF engineOk THEN [success |-> TRUE, labels |-> engineLabels]
  ELSE [success |-> FALSE, labels |-> << >>]

\* loadFile() taking the labels of a failed result's envelope
Hydrate_ignoresResult(labelsResult) ==
  IF labelsResult.success THEN << >> ELSE labelsResult.labels

\* if (labelsResult.success) state.labels = labelsResult.labels || {};
\* else state.labels = {};
Hydrate(labelsResult) ==
  IF labelsResult.success THEN labelsResult.labels ELSE << >>

\* loadFile() calls whose file name is fixed: those awaiting a result and
\* those awaiting the save before them
LoadsUnderWay ==
  Len(loads) + Cardinality({ i \in DOMAIN saves : saves[i].then.kind = "load" })

\* the change listener of the file dropdown: loadFile() up to its first
\* await that waits; saveIfDirty() either finds nothing to save, and the
\* file is asked for at once, or issues a save the rest waits for
LoadFile(filename) ==
  /\ LoadsUnderWay < MaxLoads
  /\ IF labelsDirty /\ currentFile # None
     THEN /\ Len(saves) < MaxSaves
          /\ CancelAndSave(ThenLoad(filename))
          /\ UNCHANGED << currentFile, loads >>
     ELSE /\ currentFile' = filename
          /\ loads' = Append(loads, [file |-> filename, pc |-> "file"])
          /\ UNCHANGED saveVars
  /\ lastEdit' = [op |-> "load", file |-> filename]
  /\ UNCHANGED << labels, currentSegment, currentLabelType,
                  regionSelectionMode, regionStart >>
  /\ UNCHANGED << fileData, segments, eraserVars, storedLabels, labelsFile >>
  /\ UNCHANGED << detectVars, bridgeVars, streamVars, reviewVars >>

\* the result of window.electronAPI.loadFile arrives: a failure ends the
\* call, a success sets state.fileData and asks for the labels
LoadFileResult(i, success) ==
  /\ i \in DOMAIN loads
  /\ loads[i].pc = "file"
  /\ IF success
     THEN /\ fileData' = TRUE
          /\ segments' = FileSegments(loads[i].file)
          /\ loads' = [loads EXCEPT ![i].pc = "labels"]
     ELSE /\ loads' = Splice(loads, i)
          /\ UNCHANGED << fileData, segments >>
  /\ lastEdit' = [op |-> "fileLoaded", file |-> loads[i].file,
                  success |-> success]
  /\ UNCHANGED << labels, currentSegment, currentLabelType,
                  regionSelectionMode, regionStart >>
  /\ UNCHANGED << currentFile, saveVars, eraserVars, storedLabels,
                  labelsFile >>
  /\ UNCHANGED << detectVars, bridgeVars, streamVars, reviewVars >>

\* the result of window.electronAPI.loadLabels arrives: the rest of
\* loadFile()
LoadLabelsResult(i, success) ==
  /\ i \in DOMAIN loads
  /\ loads[i].pc = "labels"
  /\ labels' = Hydrate(LoadLabelsReply(success,
                         EngineLoadLabels(storedLabels[loads[i].file])))
  /\ labelsFile' = loads[i].file
  /\ currentSegment' = 0
  /\ loads' = Splice(loads, i)
  /\ lastEdit' = [op |-> "labelsLoaded", file |-> loads[i].file,
                  success |-> success]
  /\ UNCHANGED << currentLabelType, regionSelectionMode, regionStart >>
  /\ UNCHANGED << fileVars, saveVars, eraserVars, storedLabels >>
  /\ UNCHANGED << detectVars, bridgeVars, streamVars, reviewVars >>

\* the window starts with no file; a.csv has any of the label files, b.csv
\* has none
InitLoad ==
  /\ isDev = FALSE
  /\ BridgeInit
  /\ StreamInit
  /\ RendererState
  /\ currentFile = None
  /\ fileData = FALSE
  /\ segments = 0
  /\ storedLabels \in { [NoStoredLabels EXCEPT !["a.csv"] = stored] :
                         stored \in StoredFiles }
  /\ labelsFile = None

\* the user types into the review note of a loaded file while nothing is
\* under way
TypeNoteIdle(note) ==
  /\ saves = << >>
  /\ loads = << >>
  /\ pendingTimers = 0
  /\ HandleReviewNoteChange(note)

NextLoad ==
  \/ \E filename \in Files : LoadFile(filename)
  \/ \E i \in 1 .. MaxLoads, success \in BOOLEAN : LoadFileResult(i, success)
  \/ \E i \in 1 .. MaxLoads, success \in BOOLEAN :
       LoadLabelsResult(i, success)
  \/ \E note \in Notes : TypeNoteIdle(note)
  \/ AutoSaveTimerFires
  \/ \E i \in 1 .. MaxSaves, success \in BOOLEAN : SaveAndWrite(i, success)

SpecLoad == InitLoad /\ [][NextLoad]_vars

\* the stored segment record is in a legacy shape
IsLegacy(rec) == "label_indexes" \notin DOMAIN rec

\* the points a legacy record holds for a type: inline, or under its signal
LegacyPoints(rec, t) ==
  IF "signals" \in DOMAIN rec
  THEN IF t \in DOMAIN rec.signals.ABP.label_indexes
       THEN rec.signals.ABP.label_indexes[t] ELSE << >>
  ELSE IF t \in DOMAIN rec THEN rec[t] ELSE << >>

LabeledOnDisk ==
  [NoStoredLabels EXCEPT
     !["a.csv"] = (0 :> StoredCurrent(<< 2 * TOLERANCE >>, << >>))]

\* a.csv has been opened and its labels loaded: nothing is dirty
InitOpenedLabeled ==
  /\ isDev = FALSE
  /\ BridgeInit
  /\ StreamInit
  /\ RendererStateNoLabels
  /\ currentFile = "a.csv"
  /\ fileData = TRUE
  /\ segments = FileSegments("a.csv")
  /\ storedLabels = LabeledOnDisk
  /\ labelsFile = "a.csv"
  /\ labels = Hydrate(LoadLabelsReply(TRUE,
                        EngineLoadLabels(LabeledOnDisk["a.csv"])))

SpecModesLabeled == InitOpenedLabeled /\ [][NextModes]_vars

\* C25: every change to the labels is marked. A step that changes the
\* points or regions of the current segment outside an eraser sweep (point
\* toggle, region commit, right click) leaves the dirty flag set and a timer
\* pending, and so does the step that ends a sweep which removed a point
\* (Shift released, pointer-up, pointer-leave).
EveryChangeMarksDirty ==
  [][/\ (~eraserActive /\ ~eraserActive'
           /\ (CurrentIndexes' # CurrentIndexes
                 \/ CurrentRegions' # CurrentRegions))
          => (labelsDirty' /\ pendingTimers' > 0)
     /\ (eraserActive /\ ~eraserActive' /\ eraserModified)
          => (labelsDirty' /\ pendingTimers' > 0)]_vars

\* ------------------------------------------------------- switching files
\* a file is open; the user types into the review note, picks files from
\* the dropdown, and timers and results arrive in any order
NextSwitch ==
  \/ \E note \in Notes : TypeNote(note)
  \/ \E filename \in Files : LoadFile(filename)
  \/ \E i \in 1 .. MaxLoads, success \in BOOLEAN : LoadFileResult(i, success)
  \/ \E i \in 1 .. MaxLoads, success \in BOOLEAN :
       LoadLabelsResult(i, success)
  \/ AutoSaveTimerFires
  \/ \E i \in 1 .. MaxSaves, success \in BOOLEAN : SaveAndWrite(i, success)

SpecSwitch == InitOpened /\ [][NextSwitch]_vars

\* C26: when state.currentFile is replaced no debounce timer is pending:
\* the file change has cancelled it, so no timer set for the previous file
\* fires afterwards.
NoTimerAcrossFileSwitch ==
  [][currentFile' # currentFile => pendingTimers' = 0]_vars

\* C27: when the labels of another file replace state.labels, the label
\* file of the previous file holds exactly the labels that were in memory.
SwitchLosesNothing ==
  [][(labelsFile' # labelsFile /\ lastEdit'.op = "labelsLoaded") =>
       EngineLoadLabels(storedLabels[labelsFile]) = labels]_vars

\* ------------------------------------------------------ renderer: detection
\* the lists a detection result carries: sample offsets of the segment in
\* ascending order
DetectedLists == { << >>, << 0 >>, << 0, 2 * TOLERANCE >> }

\* the targets of the three peak buttons, with the label type each fills
\* and the list of the result it takes
PeakTargets ==
  { [target |-> "compression_systolic",
     type |-> "compression_systolic_points", list |-> "systolic"],
    [target |-> "spontaneous_systolic",
     type |-> "spontaneous_systolic_points", list |-> "systolic"],
    [target |-> "spontaneous_diastolic",
     type |-> "spontaneous_diastolic_points", list |-> "diastolic"] }

\* the label types of the upslope dropdown
UpslopeTypes ==
  { "compression_diastolic_points", "spontaneous_diastolic_points" }

\* a creation step that does not look for an existing record
SegmentOrNew_alwaysNew(store, seg) == NewSegment(FALSE)

\* the record findPeaks and findUpslope create for a segment without one
SegmentOrNew(store, seg) ==
  IF seg \in DOMAIN store THEN store[seg] ELSE NewSegment(FALSE)

\* state.labels[segmentId].label_indexes[type] = list; labeled = true
\* (the assignment adds the key when label_indexes has none of that name)
ApplyDetected(store, seg, type, list) ==
  MapSet(store, seg,
         [SegmentOrNew(store, seg) EXCEPT
            !.label_indexes = MapSet(@, type, list),
            !.labeled = TRUE])

\* what the detection functions leave alone before their await
DetectionAsked(request) ==
  /\ Len(detections) < MaxDetections
  /\ detections' = Append(detections, request)
  /\ lastEdit' = [op |-> "detect", kind |-> request.kind]
  /\ UNCHANGED << labels, currentSegment, currentLabelType,
                  regionSelectionMode, regionStart >>
  /\ UNCHANGED << saveVars, fileVars, eraserVars >>
  /\ UNCHANGED << loadVars, bridgeVars, streamVars, reviewVars >>

\* findPeaks(targetLabelType) up to its await (the file has an ABP signal)
FindPeaks(target) ==
  /\ fileData
  /\ DetectionAsked([kind |-> "peaks", type |-> target.type,
                     list |-> target.list, seg |-> currentSegment])

\* findUpslope() up to its await: segmentId is read before the await; with
\* distance filtering the systolic points of the matching type are needed
FindUpslope(labelType, filtering) ==
  /\ fileData
  /\ LET systolicType ==
           IF labelType = "compression_diastolic_points"
           THEN "compression_systolic_points"
           ELSE "spontaneous_systolic_points"
         systolicPeaks ==
           IF currentSegment \in DOMAIN labels
           THEN labels[currentSegment].label_indexes[systolicType]
           ELSE << >>
     IN IF filtering /\ systolicPeaks = << >>
        THEN /\ lastEdit' = [op |-> "detect", kind |-> "none"]
             /\ UNCHANGED << labels, currentSegment, currentLabelType,
                             regionSelectionMode, regionStart >>
             /\ UNCHANGED << saveVars, fileVars, eraserVars, detectVars >>
             /\ UNCHANGED << loadVars, bridgeVars, streamVars, reviewVars >>
        ELSE DetectionAsked([kind |-> "upslope", type |-> labelType,
                             list |-> "upslopes", seg |-> currentSegment])

\* findOnsetCompression() up to its await: it needs compression systolic
\* points in the current segment, and reads segmentId before the await
FindOnsetCompression ==
  /\ fileData
  /\ IF currentSegment \in DOMAIN labels
        /\ labels[currentSegment].label_indexes[
             "compression_systolic_points"] # << >>
     THEN DetectionAsked([kind |-> "onset",
                          type |-> "compression_diastolic_points",
                          list |-> "onsets", seg |-> currentSegment])
     ELSE /\ lastEdit' = [op |-> "detect", kind |-> "none"]
          /\ UNCHANGED << labels, currentSegment, currentLabelType,
                          regionSelectionMode, regionStart >>
          /\ UNCHANGED << saveVars, fileVars, eraserVars, detectVars >>
          /\ UNCHANGED << loadVars, bridgeVars, streamVars, reviewVars >>

\* the result of the oldest detection request arrives: a failure changes
\* nothing; a success puts the result's list in place of the list of the
\* target type, in the segment current now (findPeaks) or current when the
\* request was made (findUpslope, findOnsetCompression), and marks the
\* labels dirty. findOnsetCompression creates no record: without one its
\* assignment throws into the catch block.
DetectionResult(success, systolic, diastolic) ==
  /\ detections # << >>
  /\ detections' = Tail(detections)
  /\ LET d == Head(detections)
         seg == IF d.kind = "peaks" THEN currentSegment ELSE d.seg
         list == IF d.list = "diastolic" THEN diastolic ELSE systolic
     IN /\ lastEdit' = [op |-> "detected", kind |-> d.kind, type |-> d.type,
                        seg |-> seg, success |-> success]
        /\ IF success /\ (d.kind # "onset" \/ seg \in DOMAIN labels)
           THEN /\ labels' = ApplyDetected(labels, seg, d.type, list)
                /\ MarkLabelsDirty
           ELSE UNCHANGED << labels, saveVars >>
  /\ UNCHANGED << currentSegment, currentLabelType, regionSelectionMode,
                  regionStart >>
  /\ UNCHANGED << fileVars, eraserVars >>
  /\ UNCHANGED << loadVars, bridgeVars, streamVars, reviewVars >>

NextDetect ==
  \/ \E target \in PeakTargets : FindPeaks(target)
  \/ \E labelType \in UpslopeTypes, filtering \in BOOLEAN :
       FindUpslope(labelType, filtering)
  \/ FindOnsetCompression
  \/ \E success \in BOOLEAN, systolic \in DetectedLists,
        diastolic \in DetectedLists :
       DetectionResult(success, systolic, diastolic)
  \/ \E t \in ModeTypes : SelectLabelType(t)
  \/ \E onModebar \in BOOLEAN, shiftKey \in BOOLEAN, x \in ModeSamples :
       PointClick(onModebar, shiftKey, x)

SpecDetect == InitOpened /\ [][NextDetect]_vars

\* C28: in every segment an offset is in the list of at most one type.
OffsetInOneTypeOnly ==
  \A seg \in DOMAIN labels : \A t \in TypeSet : \A u \in TypeSet \ {t} :
    Range(labels[seg].label_indexes[t])
      \cap Range(labels[seg].label_indexes[u]) = {}

\* -------------------------------------------------------- range invariants
\* state.metadata.chunk_size: the offsets of a segment are 0 .. MaxSample
SegmentLength == MaxSample + 1

\* C29: every offset in label_indexes lies in the segment:
\* 0 <= offset < SegmentLength.
OffsetsInSegment ==
  \A seg \in DOMAIN labels : \A t \in TypeSet :
    \A i \in DOMAIN labels[seg].label_indexes[t] :
      /\ 0 <= labels[seg].label_indexes[t][i]
      /\ labels[seg].label_indexes[t][i] < SegmentLength

\* C30: every stored region has start < end, with both ends offsets of the
\* segment: 0 <= start and end <= SegmentLength.
RegionsStrictlyOrdered ==
  \A seg \in DOMAIN labels :
    \A i \in DOMAIN labels[seg].highlighted_regions :
      LET region == labels[seg].highlighted_regions[i]
      IN /\ region.start < region.end
         /\ 0 <= region.start
         /\ region.end <= SegmentLength

SessionSamples == { TOLERANCE }

SessionLists == { << >>, << TOLERANCE >> }

\* the detection buttons pressed while no detection awaits its result
FindPeaksIdle(target) ==
  /\ detections = << >>
  /\ FindPeaks(target)

FindUpslopeIdle(labelType, filtering) ==
  /\ detections = << >>
  /\ FindUpslope(labelType, filtering)

FindOnsetCompressionIdle ==
  /\ detections = << >>
  /\ FindOnsetCompression

\* every operation that creates or changes the record of a segment, on the
\* segment the file opens with (the debounce timer the first edit starts
\* stays pending, and a detection is asked for while no other is awaited)
NextSession ==
  \/ \E onModebar \in BOOLEAN, shiftKey \in BOOLEAN, x \in SessionSamples :
       PointClick(onModebar, shiftKey, x)
  \/ \E onModebar \in BOOLEAN, shiftKey \in BOOLEAN, x \in SessionSamples :
       FirstRegionClick(onModebar, shiftKey, x)
  \/ ToggleRegionMode
  \/ \E onModebar \in BOOLEAN, shiftKey \in BOOLEAN, x \in SessionSamples :
       HandleEraserMouseDown(onModebar, shiftKey, x)
  \/ HandleEraserMouseUp
  \/ ToggleReview
  \/ \E note \in Notes : HandleReviewNoteChange(note)
  \/ \E target \in PeakTargets : FindPeaksIdle(target)
  \/ \E labelType \in UpslopeTypes, filtering \in BOOLEAN :
       FindUpslopeIdle(labelType, filtering)
  \/ FindOnsetCompressionIdle
  \/ \E success \in BOOLEAN, systolic \in SessionLists,
        diastolic \in SessionLists :
       DetectionResult(success, systolic, diastolic)

SpecSession == InitOpened /\ [][NextSession]_vars

\* the label types whose list differs between two records
TypesChanged(before, after) ==
  { t \in TypeSet : after.label_indexes[t] # before.label_indexes[t] }

\* C32: a segment record is created only when absent, with the four label
\* types present and empty, and an existing record is never replaced by the
\* creation step. In every step, every record has exactly the four label
\* types; a record that was there before keeps its review flag, its note and
\* its regions unless the step is the review toggle, the note edit or the
\* region commit, and unless the step is an erase at most one of its lists
\* changes; a record that is new has nothing but what the step put there.
RecordsCreatedOnlyWhenAbsent ==
  [][\A seg \in DOMAIN labels' :
       LET after == labels'[seg]
           before == IF seg \in DOMAIN labels THEN labels[seg]
                     ELSE NewSegment(after.labeled)
       IN /\ DOMAIN after.label_indexes = TypeSet
          /\ after.review # before.review => lastEdit'.op = "review"
          /\ after.review_note # before.review_note => lastEdit'.op = "note"
          /\ after.highlighted_regions # before.highlighted_regions
               => lastEdit'.op = "regionEnd"
          /\ lastEdit'.op # "erase"
               => Cardinality(TypesChanged(before, after)) <= 1]_vars

\* a record made by a note edit, flagged for review, given a region and then
\* filled by a detection holds all of it
WitnessRecordKeptByDetection ==
  /\ lastEdit.op = "detected"
  /\ lastEdit.success
  /\ currentSegment \in DOMAIN labels
  /\ labels[currentSegment].review_note = "check"
  /\ labels[currentSegment].review
  /\ labels[currentSegment].highlighted_regions # << >>
  /\ labels[currentSegment].label_indexes[lastEdit.type] # << >>

\* C33: a segment that holds a point or a region has labeled = true.
HoldingSomethingIsLabeled ==
  \A seg \in DOMAIN labels :
    (\/ \E t \in TypeSet : labels[seg].label_indexes[t] # << >>
     \/ labels[seg].highlighted_regions # << >>)
      => labels[seg].labeled

\* ------------------------------------------------- what a save leaves behind
\* edits of the open file (the note and the review flag, made while fewer
\* than MaxSaves saves await their result), the debounce timer and the save
\* results, with the label file each successful save writes
ToggleReviewWhileSaving ==
  /\ Len(saves) < MaxSaves
  /\ ToggleReview

NextPersist ==
  \/ \E note \in Notes : TypeNote(note)
  \/ ToggleReviewWhileSaving
  \/ AutoSaveTimerFires
  \/ \E i \in 1 .. MaxSaves + 1, success \in BOOLEAN : SaveAndWrite(i, success)

SpecPersist == InitOpened /\ [][NextPersist]_vars

\* C34: whenever labelsDirty is false and no save awaits its result, the
\* label store is what the last successful save wrote to the label file of
\* the current file.
CleanStoreIsPersisted ==
  (~labelsDirty /\ saves = << >>) => labels = storedLabels[currentFile]

\* C35: every save request pairs a file name with the labels of that file:
\* whenever saveLabels() sends a request, the label store holds the labels
\* of the file state.currentFile names.
SaveNamesTheFileOfItsLabels ==
  [][Len(saves') > Len(saves) => currentFile = labelsFile]_vars

\* ------------------------------------------- detection across navigation
\* the three detections on the compression types and their results, with
\* segment navigation (and the flush it awaits) in between
CompressionTargets == { target \in PeakTargets :
                          target.type = "compression_systolic_points" }

NextDetectNav ==
  \/ \E target \in CompressionTargets : FindPeaks(target)
  \/ \E filtering \in BOOLEAN :
       FindUpslope("compression_diastolic_points", filtering)
  \/ FindOnsetCompression
  \/ \E success \in BOOLEAN, systolic \in SessionLists :
       DetectionResult(success, systolic, << >>)
  \/ \E direction \in { -1, 1 } : NavigateIdle(direction)
  \/ \E i \in 1 .. MaxSaves, success \in BOOLEAN : SaveReturns(i, success)

SpecDetectNav == InitOpened /\ [][NextDetectNav]_vars

\* C36: the result of a detection goes to the segment whose samples the
\* request carried and replaces the list of the targeted type only; a
\* failed detection leaves the label store and the dirty flag as they were.
DetectionMergedWhereAsked ==
  [][Len(detections') < Len(detections) =>
       LET d == Head(detections)
       IN IF lastEdit'.success
          THEN /\ \A seg \in DOMAIN labels' \ { d.seg } :
                    seg \in DOMAIN labels /\ labels'[seg] = labels[seg]
               /\ d.seg \in DOMAIN labels' =>
                    \A t \in TypeSet \ { d.type } :
                      labels'[d.seg].label_indexes[t]
                        = SegmentOrNew(labels, d.seg).label_indexes[t]
          ELSE labels' = labels /\ labelsDirty' = labelsDirty]_vars

\* ------------------------------------------------ dirty labels get saved
\* C37: whenever labelsDirty is true and a file is open, a debounce timer is
\* pending or a save is awaiting its result.
DirtyHasTimerOrSave ==
  (labelsDirty /\ currentFile # None) =>
    (pendingTimers > 0 \/ saves # << >>)

\* ------------------------------------------- the bridge's pending-call map
\* C38: the pending-call map holds no entry for a call whose promise is
\* already settled.
NoEntryForSettledCall ==
  \A id \in DOMAIN pendingCalls :
    calls[pendingCalls[id]].outcome.kind = "pending"

\* ------------------------------------------ regions across navigation
\* region selection with its two clicks, and segment navigation (with the
\* flush it awaits) in between
NextRegionNav ==
  \/ ToggleRegionMode
  \/ \E onModebar \in BOOLEAN, shiftKey \in BOOLEAN, x \in ModeSamples :
       FirstRegionClick(onModebar, shiftKey, x)
  \/ \E direction \in { -1, 1 } : NavigateIdle(direction)
  \/ \E i \in 1 .. MaxSaves, success \in BOOLEAN : SaveReturns(i, success)

SpecRegionNav == InitOpened /\ [][NextRegionNav]_vars

\* the event before this step was the arrival in the current segment
ArrivedNow ==
  \/ lastEdit.op = "navigate" /\ lastEdit.seg = currentSegment
  \/ lastEdit.op = "saved" /\ lastEdit.then.kind = "navigate"

\* C39: both ends of a committed region come from clicks in the segment
\* where it is stored: the first click after the arrival in a segment never
\* commits a region, since its start would be a click of an earlier segment.
RegionStartsWhereItEnds ==
  [][(lastEdit' # lastEdit /\ lastEdit'.op = "regionEnd") => ~ArrivedNow]_vars

\* ------------------------------------------ the segment index across files
\* segment navigation interleaved with the opening of files, with the note
\* edits that make navigation and file change wait for a flush (the label
\* files, which do not bear on the segment index, stay as they are)
NextLoadNav ==
  \/ \E direction \in { -1, 1 } : NavigateSegment(direction)
  \/ \E filename \in Files : LoadFile(filename)
  \/ \E i \in 1 .. MaxLoads, success \in BOOLEAN : LoadFileResult(i, success)
  \/ \E i \in 1 .. MaxLoads, success \in BOOLEAN :
       LoadLabelsResult(i, success)
  \/ \E note \in Notes : TypeNoteIdle(note)
  \/ \E i \in 1 .. MaxSaves, success \in BOOLEAN : SaveReturns(i, success)

SpecLoadNav == InitOpened /\ [][NextLoadNav]_vars

\* C40: while the loaded file has at least one segment, currentSegment is
\* the index of one of its segments: 0 <= currentSegment < segments.
CurrentSegmentInFile ==
  (fileData /\ segments >= 1) =>
    (0 <= currentSegment /\ currentSegment < segments)

====
